---- MODULE Spec2Model ----
(***************************************************************************)
(* A model of farc3's constraint System (src/src/system.rs) instantiated   *)
(* with the mine-count constraints (src/src/systems/mines) or with the     *)
(* table constraints (src/src/systems/generic).                            *)
(*                                                                         *)
(* Positions are 0-based as in the Rust source; At(seq, i) reads the       *)
(* element the source writes seq[i].                                       *)
(***************************************************************************)
EXTENDS Naturals, Integers, Sequences, FiniteSets, TLC

\* ------------------------------------------------------------------ bounds
\* Number of distinct tiles (variables) the caller may mention.
NumTiles == 2
\* Largest number of constraints the caller stores in one System.
MaxLen == 3
\* Longest sequence handed to one extend / from_iter call.
MaxExtend == 2
\* Largest number of frames on the search stack before a frame is expanded.
MaxStack == 3
\* Largest number of operations the caller performs on the System before solve.
MaxOps == 4

\* Tiles of the wider mine constraints.
NumWideTiles == 3

\* Largest number of calls made in a row on assignments.
MaxCalls == 2

Tiles == 0 .. (NumTiles - 1)

\* Option<T>: None is the empty sequence, Some(x) the one-element sequence.
None == << >>
Some(x) == << x >>

At(seq, i) == seq[i + 1]

ReplaceAt(seq, i, x) == [seq EXCEPT ![i + 1] = x]

Pop(seq) == SubSeq(seq, 1, Len(seq) - 1)

Positions(seq) == 0 .. (Len(seq) - 1)

\* The least element of a non-empty set of naturals (BTreeSet::pop_first).
Least(S) == CHOOSE x \in S : \A y \in S : x <= y

\* All orders in which a HashSet may hand out the elements of S.
Orders(S) ==
    { q \in [1 .. Cardinality(S) -> S] : \A x \in S : \E k \in DOMAIN q : q[k] = x }

\* ------------------------------------------------- mines: MineAssignment
MineAssignmentNew(safe, mines) == [safe_tiles |-> safe, mine_tiles |-> mines]

AssignDefault == MineAssignmentNew({}, {})

all_safe(tiles) == MineAssignmentNew(tiles, {})

all_mine(tiles) == MineAssignmentNew({}, tiles)

\* A union in which self's value wins where the two disagree.
mine_union_self_wins(self, other) ==
    [safe_tiles |-> self.safe_tiles \cup (other.safe_tiles \ self.mine_tiles),
     mine_tiles |-> self.mine_tiles \cup (other.mine_tiles \ self.safe_tiles)]

\* A union that merges both sets and takes nothing out.
mine_union_keeps_conflicts(self, other) ==
    [safe_tiles |-> self.safe_tiles \cup other.safe_tiles,
     mine_tiles |-> self.mine_tiles \cup other.mine_tiles]

\* MineAssignment::union: both sets are merged, then every tile present in
\* both is taken out of both.
mine_union(self, other) ==
    LET safe == self.safe_tiles \cup other.safe_tiles
        mine == self.mine_tiles \cup other.mine_tiles
    IN  [safe_tiles |-> safe \ mine, mine_tiles |-> mine \ safe]

\* MineAssignment::intersection
assign_intersection(self, other) ==
    [safe_tiles |-> self.safe_tiles \cap other.safe_tiles,
     mine_tiles |-> self.mine_tiles \cap other.mine_tiles]

\* ------------------------------------------------- mines: MineConstraint
MineConstraintNew(tiles, count) == [tiles |-> tiles, count |-> count]

RECURSIVE Product(_, _)
\* (lo ..= hi).product()
Product(lo, hi) == IF lo > hi THEN 1 ELSE lo * Product(lo + 1, hi)

Max2(a, b) == IF a >= b THEN a ELSE b

\* choose_num(n, r), for r <= n (the debug assertion of the source).
choose_num(n, r) == Product(Max2(r + 1, 2), n) \div Product(2, n - r)

mine_size(c) == choose_num(Cardinality(c.tiles), c.count)

mine_variables(c) == c.tiles

\* Decompositions that never assign a tile as safe.
tile_decompositions_mine_only(c, tile) ==
    IF c.count > 0 THEN << MineConstraintNew({tile}, 1) >> ELSE << >>

\* Decompositions that assign the tile both ways whatever the count.
tile_decompositions_unguarded(c, tile) ==
    << MineConstraintNew({tile}, 1), MineConstraintNew({tile}, 0) >>

\* The decompositions of one tile, in the order they are pushed.
tile_decompositions(c, tile) ==
    (IF c.count > 0 THEN << MineConstraintNew({tile}, 1) >> ELSE << >>)
    \o (IF c.count < Cardinality(c.tiles)
        THEN << MineConstraintNew({tile}, 0) >> ELSE << >>)

RECURSIVE flat_decompositions(_, _)
\* decompositions() when the tile set is iterated in the order `order`.
flat_decompositions(c, order) ==
    IF order = << >> THEN << >>
    ELSE tile_decompositions(c, Head(order)) \o flat_decompositions(c, Tail(order))

\* A reduce that drops the tiles of other from self and keeps the count.
mine_reduce_keeps_count(self, other) ==
    IF self.tiles \cap other.tiles = {}
    THEN [res |-> "false", c |-> self]
    ELSE [res |-> "true", c |-> [self EXCEPT !.tiles = self.tiles \ other.tiles]]

\* A reduce that applies its three cases without looking for a conflict.
mine_reduce_unchecked(self, other) ==
    IF other.count = 0
    THEN [res |-> "true", c |-> [self EXCEPT !.tiles = self.tiles \ other.tiles]]
    ELSE IF other.count = Cardinality(other.tiles)
    THEN [res |-> "true",
          c |-> [tiles |-> self.tiles \ other.tiles,
                 count |-> self.count - Cardinality(self.tiles \cap other.tiles)]]
    ELSE IF other.tiles \subseteq self.tiles
    THEN [res |-> "true",
          c |-> [tiles |-> self.tiles \ other.tiles,
                 count |-> self.count - other.count]]
    ELSE [res |-> "false", c |-> self]

\* MineConstraint::reduce. res is "true", "false" or "err"; c is self after
\* the call (unchanged on "false" and on "err").
mine_reduce(self, other) ==
    LET tiles == self.tiles \ other.tiles
        len_overlap == Cardinality(self.tiles \cap other.tiles)
    IN  IF other.count = 0
        THEN IF Cardinality(tiles) < self.count
             THEN [res |-> "err", c |-> self]
             ELSE [res |-> "true", c |-> [self EXCEPT !.tiles = tiles]]
        ELSE IF other.count = Cardinality(other.tiles)
        THEN IF self.count < len_overlap
             THEN [res |-> "err", c |-> self]
             ELSE [res |-> "true",
                   c |-> MineConstraintNew(tiles, self.count - len_overlap)]
        ELSE IF other.tiles \subseteq self.tiles
        THEN IF self.count < other.count
                \/ Cardinality(tiles) < self.count - other.count
             THEN [res |-> "err", c |-> self]
             ELSE [res |-> "true",
                   c |-> MineConstraintNew(tiles, self.count - other.count)]
        ELSE [res |-> "false", c |-> self]

\* A pop_solution that leaves the count as it was.
mine_pop_solution_keeps_count(self) ==
    IF self.count = 0 \/ self.count = Cardinality(self.tiles)
    THEN [sol |-> Some(IF self.count = 0 THEN all_safe(self.tiles)
                       ELSE all_mine(self.tiles)),
          c |-> [self EXCEPT !.tiles = {}]]
    ELSE [sol |-> None, c |-> self]

\* MineConstraint::pop_solution. sol is None or Some(assignment).
mine_pop_solution(self) ==
    IF self.count = 0
    THEN [sol |-> Some(all_safe(self.tiles)), c |-> [self EXCEPT !.tiles = {}]]
    ELSE IF self.count = Cardinality(self.tiles)
    THEN [sol |-> Some(all_mine(self.tiles)), c |-> MineConstraintNew({}, 0)]
    ELSE [sol |-> None, c |-> self]

\* ------------------------------------------ generic: DiscreteAssignment
\* A DiscreteAssignment is the HashMap it wraps: a function from the bound
\* variables to their values.
DiscreteAssignmentDefault == [v \in {} |-> FALSE]

\* An intersection that keeps every variable self shares with other.
disc_intersection_keeps_shared(self, other) ==
    [v \in (DOMAIN self) \cap (DOMAIN other) |-> self[v]]

\* DiscreteAssignment::intersection
disc_intersection(self, other) ==
    [v \in { x \in DOMAIN self : x \in DOMAIN other /\ self[x] = other[x] } |-> self[v]]

\* A union that inserts nothing from other.
disc_union_inserts_nothing(self, other) ==
    [v \in { x \in DOMAIN self : x \in DOMAIN other => self[x] = other[x] } |-> self[v]]

\* DiscreteAssignment::union
disc_union(self, other) ==
    [v \in ((DOMAIN self) \ (DOMAIN other))
           \cup ((DOMAIN other) \ (DOMAIN self))
           \cup { x \in (DOMAIN self) \cap (DOMAIN other) : self[x] = other[x] } |->
        IF v \in DOMAIN self THEN self[v] ELSE other[v]]

\* ------------------------------------------ generic: DiscreteConstraint
\* variables is the Vec of variables (the columns), assignments the set of
\* value tuples; column idx of a tuple is At(values, idx).
DiscreteConstraintOf(columns, tuples) ==
    [variables |-> columns, assignments |-> tuples]

\* DiscreteConstraint::default
DiscreteConstraintDefault == DiscreteConstraintOf(<< >>, {})

\* DiscreteConstraint::from_iter for rows of (variable, value) pairs: c is the
\* constraint built, panic is set when the consistency assertion fails. The
\* values of a row are stored in the order the row gives them.
disc_from_iter(rows) ==
    IF rows = << >>
    THEN [panic |-> FALSE, c |-> DiscreteConstraintDefault]
    ELSE LET vars_of(row) == [k \in DOMAIN row |-> row[k][1]]
             values_of(row) == [k \in DOMAIN row |-> row[k][2]]
             columns == vars_of(rows[1])
             consistent(row) ==
                 LET vars0 == { row[k][1] : k \in DOMAIN row }
                 IN  /\ Len(columns) = Cardinality(vars0)
                     /\ \A k \in DOMAIN columns : columns[k] \in vars0
         IN  [panic |-> \E r \in 2 .. Len(rows) : ~ consistent(rows[r]),
              c |-> DiscreteConstraintOf(
                        columns, { values_of(rows[r]) : r \in DOMAIN rows })]

disc_size(c) == Cardinality(c.assignments)

disc_variables(c) == { c.variables[k] : k \in DOMAIN c.variables }

\* DiscreteConstraint::decompositions when the assignments are iterated in
\* the order `order`.
disc_decompositions(c, order) ==
    [k \in DOMAIN order |-> DiscreteConstraintOf(c.variables, {order[k]})]

\* The (idx0, idx1) pairs of DiscreteConstraint::reduce: a column of self and
\* the column of other that holds the same variable (the last one, when other
\* lists the variable twice).
shared_idxs(self, other) ==
    { << idx0, idx1 >> \in Positions(self.variables) \X Positions(other.variables) :
        /\ At(self.variables, idx0) = At(other.variables, idx1)
        /\ \A j \in Positions(other.variables) :
              At(other.variables, j) = At(other.variables, idx1) => j <= idx1 }

\* A retain that compares the columns of self and other position by
\* position, whatever variables they hold.
retained_assignments_by_position(self, other) ==
    { values0 \in self.assignments :
        \E values1 \in other.assignments :
            \A k \in (DOMAIN values0) \cap (DOMAIN values1) : values0[k] = values1[k] }

\* The tuples of self that DiscreteConstraint::reduce retains: those that
\* agree with some tuple of other on every shared column.
retained_assignments(self, other) ==
    { values0 \in self.assignments :
        \E values1 \in other.assignments :
            \A p \in shared_idxs(self, other) : At(values0, p[1]) = At(values1, p[2]) }

\* What DiscreteConstraint::reduce answers once retain has left new_len of
\* len tuples.
reduce_result(len, new_len) ==
    IF 0 < new_len THEN (IF new_len < len THEN "true" ELSE "false") ELSE "err"

\* self with its assignments replaced by the retained ones, and the answer.
reduce_retaining(self, retained) ==
    [res |-> reduce_result(Cardinality(self.assignments), Cardinality(retained)),
     c |-> [self EXCEPT !.assignments = retained]]

\* DiscreteConstraint::reduce. res is "true", "false" or "err"; c is self
\* after the call: retain has run before the length is inspected, so on "err"
\* self has no assignments left.
disc_reduce(self, other) ==
    reduce_retaining(self, retained_assignments(self, other))

\* A common_idxs that takes every column for a common one.
common_idxs_all_columns(c) ==
    IF c.assignments = {} THEN None ELSE Some(Positions(c.variables))

\* DiscreteConstraint::common_idxs: None without assignments, else the
\* columns on which all assignments agree.
common_idxs(c) ==
    IF c.assignments = {}
    THEN None
    ELSE Some({ idx \in Positions(c.variables) :
                  \A v, w \in c.assignments : At(v, idx) = At(w, idx) })

\* The elements of seq at the positions of keep, in their order in seq.
Subsequence(seq, keep) ==
    [k \in 1 .. Cardinality(keep) |->
        At(seq, CHOOSE p \in keep : Cardinality({ q \in keep : q < p }) = k - 1)]

\* IteratorPartition::partition_idxs for ascending indexes idxs: the pointer
\* into idxs advances whenever the element index reaches it, so the elements
\* picked are those whose position is in idxs.
picked_idxs(seq, idxs) == Subsequence(seq, Positions(seq) \cap idxs)

rest_idxs(seq, idxs) == Subsequence(seq, Positions(seq) \ idxs)

partition_idxs(seq, idxs) ==
    [picked |-> picked_idxs(seq, idxs), rest |-> rest_idxs(seq, idxs)]

\* DiscreteConstraint::pop_idxs. popped is None or Some(constraint).
pop_idxs(c, idxs) ==
    IF Len(c.variables) = 0
    THEN [popped |-> None, c |-> c]
    ELSE [popped |-> Some(DiscreteConstraintOf(
                         picked_idxs(c.variables, idxs),
                         { picked_idxs(values, idxs) : values \in c.assignments })),
          c |-> DiscreteConstraintOf(
                    rest_idxs(c.variables, idxs),
                    { rest_idxs(values, idxs) : values \in c.assignments })]

\* The value of variable x in the only tuple `values` of cons (the value of
\* its last column, should cons list x twice).
value_of(cons, values, x) ==
    values[CHOOSE j \in DOMAIN cons.variables :
              /\ cons.variables[j] = x
              /\ \A i \in DOMAIN cons.variables : cons.variables[i] = x => i <= j]

\* The assignment DiscreteConstraint::pop_solution builds from the popped
\* constraint cons: its variables zipped with its only tuple.
popped_assignment(cons) ==
    [x \in disc_variables(cons) |->
        value_of(cons, CHOOSE v \in cons.assignments : TRUE, x)]

\* The end of DiscreteConstraint::pop_solution, p being what pop_idxs
\* returned.
pop_solution_of(p) ==
    [sol |-> IF p.popped = None THEN None ELSE Some(popped_assignment(p.popped[1])),
     c |-> p.c]

\* DiscreteConstraint::pop_solution after common_idxs has returned idxs.
pop_common(self, idxs) ==
    IF idxs = None
    THEN [sol |-> None, c |-> self]
    ELSE pop_solution_of(pop_idxs(self, idxs[1]))

\* DiscreteConstraint::pop_solution. sol is None or Some(assignment).
disc_pop_solution(self) == pop_common(self, common_idxs(self))

\* ----------------------------------------------------------------- hashing
RECURSIVE Pow2(_)
Pow2(n) == IF n = 0 THEN 1 ELSE 2 * Pow2(n - 1)

\* The hash of one tile. DefaultHasher is taken to be collision-free on the
\* tiles of the model: distinct tiles get distinct powers of two, so that the
\* sums below are distinct for distinct sets.
tile_hash(tile) == Pow2(tile)

RECURSIVE SumHashes(_)
SumHashes(S) ==
    IF S = {} THEN 0
    ELSE LET x == CHOOSE y \in S : TRUE IN tile_hash(x) + SumHashes(S \ {x})

\* NewHashSet::hash: the (wrapping) sum of the element hashes.
set_hash(S) == SumHashes(S)

\* default_hash of a MineConstraint (derived Hash): the words fed to the
\* hasher are the tile-set hash and the count; finish() is taken to be
\* collision-free on them.
mine_hash(c) == << set_hash(c.tiles), c.count >>

\* ------------------------------------------------ the Constraint trait
\* family: the constraint type C of System<C>, "mines" for MineConstraint and
\* "generic" for DiscreteConstraint; the trait's methods resolve to the
\* implementation of that type.
VARIABLE family

\* The hash of a DiscreteConstraint (derived Hash): the variables and the
\* order-independent hash of the assignments.
disc_hash(c) == << c.variables, c.assignments >>

default_hash(c) == IF family = "mines" THEN mine_hash(c) ELSE disc_hash(c)

size(c) == IF family = "mines" THEN mine_size(c) ELSE disc_size(c)

variables(c) == IF family = "mines" THEN mine_variables(c) ELSE disc_variables(c)

reduce(self, other) ==
    IF family = "mines" THEN mine_reduce(self, other) ELSE disc_reduce(self, other)

cons_pop_solution(self) ==
    IF family = "mines" THEN mine_pop_solution(self) ELSE disc_pop_solution(self)

\* The orders in which decompositions() may iterate the constraint's HashSet.
iteration_orders(c) ==
    IF family = "mines" THEN Orders(c.tiles) ELSE Orders(c.assignments)

decompositions(c, order) ==
    IF family = "mines" THEN flat_decompositions(c, order)
    ELSE disc_decompositions(c, order)

\* A union that keeps self and ignores other.
assign_union_keeps_self(self, other) == self

assign_union(self, other) ==
    IF family = "mines" THEN mine_union(self, other) ELSE disc_union(self, other)

\* C::Solution::default()
SolutionDefault ==
    IF family = "mines" THEN AssignDefault ELSE DiscreteAssignmentDefault

\* C::default(), the value minimise moves into the slot of the withdrawn
\* constraint.
Placeholder ==
    IF family = "mines" THEN MineConstraintNew({}, 0) ELSE DiscreteConstraintDefault

\* ------------------------------------------------------------------ System
EmptyMap == [x \in {} |-> {}]

\* System::default
SystemDefault ==
    [constraints |-> << >>, idx_map |-> EmptyMap,
     references |-> EmptyMap, to_minimise |-> {}]

\* references.entry(var).or_default().insert(idx), for every var of vars.
Register(refs, vars, idx) ==
    [v \in (DOMAIN refs) \cup vars |->
        IF v \in vars
        THEN (IF v \in DOMAIN refs THEN refs[v] ELSE {}) \cup {idx}
        ELSE refs[v]]

\* references.get_mut(var) else continue; idxs.insert(idx), for every var.
RegisterExisting(refs, vars, idx) ==
    [v \in DOMAIN refs |-> IF v \in vars THEN refs[v] \cup {idx} ELSE refs[v]]

\* references.get_mut(var) else continue; idxs.remove(idx), for every var.
Unregister(refs, vars, idx) ==
    [v \in DOMAIN refs |-> IF v \in vars THEN refs[v] \ {idx} ELSE refs[v]]

len(s) == Len(s.constraints)

is_empty(s) == s.constraints = << >>

\* insert that forgets to enqueue the new position.
insert_unqueued(s, constraint) ==
    LET hash == default_hash(constraint)
        idx == Len(s.constraints)
    IN  IF hash \in DOMAIN s.idx_map
        THEN [sys |-> s, ret |-> TRUE]
        ELSE [sys |-> [constraints |-> Append(s.constraints, constraint),
                       idx_map |-> (hash :> idx) @@ s.idx_map,
                       references |-> Register(s.references, variables(constraint), idx),
                       to_minimise |-> s.to_minimise],
              ret |-> FALSE]

\* System::insert. ret is the returned flag.
insert(s, constraint) ==
    LET hash == default_hash(constraint)
        idx == Len(s.constraints)
    IN  IF hash \in DOMAIN s.idx_map
        THEN [sys |-> s, ret |-> TRUE]
        ELSE [sys |-> [constraints |-> Append(s.constraints, constraint),
                       idx_map |-> (hash :> idx) @@ s.idx_map,
                       references |-> Register(s.references, variables(constraint), idx),
                       to_minimise |-> s.to_minimise \cup {idx}],
              ret |-> FALSE]

RECURSIVE extend_idx_map(_, _, _)
\* idx_map.extend(hashes.zip(range)): later pairs overwrite earlier ones.
extend_idx_map(idx_map, cs, idx) ==
    IF cs = << >> THEN idx_map
    ELSE extend_idx_map((default_hash(Head(cs)) :> idx) @@ idx_map, Tail(cs), idx + 1)

RECURSIVE extend_references(_, _, _)
extend_references(refs, cs, idx) ==
    IF cs = << >> THEN refs
    ELSE extend_references(Register(refs, variables(Head(cs)), idx), Tail(cs), idx + 1)

\* impl Extend for System
extend(s, cs) ==
    LET n == Len(s.constraints)
    IN  [constraints |-> s.constraints \o cs,
         idx_map |-> extend_idx_map(s.idx_map, cs, n),
         references |-> extend_references(s.references, cs, n),
         to_minimise |-> s.to_minimise \cup (n .. (n + Len(cs) - 1))]

\* remove_idx that does not re-register the constraint swapped into idx.
remove_idx_unregistered(s, idx) ==
    IF s.constraints = << >>
    THEN [sys |-> s, ret |-> None, panic |-> FALSE]
    ELSE LET last_idx == Len(s.constraints) - 1
             last == At(s.constraints, last_idx)
             refs1 == Unregister(s.references, variables(last), last_idx)
         IN  IF idx = last_idx
             THEN [sys |-> [s EXCEPT !.references = refs1,
                                     !.constraints = Pop(s.constraints)],
                   ret |-> Some(last), panic |-> FALSE]
             ELSE IF idx > last_idx
             THEN [sys |-> [s EXCEPT !.references = refs1],
                   ret |-> None, panic |-> TRUE]
             ELSE LET target == At(s.constraints, idx)
                      refs2 == Unregister(refs1, variables(target), idx)
                      swapped == ReplaceAt(ReplaceAt(s.constraints, idx, last),
                                           last_idx, target)
                  IN  [sys |-> [s EXCEPT !.references = refs2,
                                         !.constraints = Pop(swapped)],
                       ret |-> Some(target), panic |-> FALSE]

\* System::remove_idx. ret is the popped constraint (an Option); panic is
\* set when constraints[idx] is indexed out of bounds.
remove_idx(s, idx) ==
    IF s.constraints = << >>
    THEN [sys |-> s, ret |-> None, panic |-> FALSE]
    ELSE LET last_idx == Len(s.constraints) - 1
             last == At(s.constraints, last_idx)
             refs1 == Unregister(s.references, variables(last), last_idx)
         IN  IF idx = last_idx
             THEN [sys |-> [s EXCEPT !.references = refs1,
                                     !.constraints = Pop(s.constraints)],
                   ret |-> Some(last), panic |-> FALSE]
             ELSE IF idx > last_idx
             THEN [sys |-> [s EXCEPT !.references = refs1],
                   ret |-> None, panic |-> TRUE]
             ELSE LET target == At(s.constraints, idx)
                      refs2 == Unregister(refs1, variables(target), idx)
                      swapped == ReplaceAt(ReplaceAt(s.constraints, idx, last),
                                           last_idx, target)
                      refs3 == RegisterExisting(refs2, variables(last), idx)
                  IN  [sys |-> [s EXCEPT !.references = refs3,
                                         !.constraints = Pop(swapped)],
                       ret |-> Some(target), panic |-> FALSE]

\* System::remove
remove(s, constraint) ==
    LET hash == default_hash(constraint)
    IN  IF hash \notin DOMAIN s.idx_map
        THEN [sys |-> s, ret |-> None, panic |-> FALSE]
        ELSE remove_idx(s, s.idx_map[hash])

\* System::queue_all
queue_all(s) == [s EXCEPT !.to_minimise = Positions(s.constraints)]

\* System::overlaps_at, for idx < len.
overlaps_at(s, idx) ==
    UNION { s.references[v] :
              v \in variables(At(s.constraints, idx)) \cap DOMAIN s.references }
    \ {idx}

\* One turn of the `while let` loop of System::minimise, for the position idx
\* just popped from to_minimise (s.to_minimise no longer holds it).
\*   detached : references with the overlapping constraints de-registered
\*   reduced  : the result of reduce for every overlapping position
\* The turn panics when a position is indexed out of bounds or when a
\* variable of an overlapping constraint has no entry in references.
turn_panics(s, idx) ==
    \/ idx >= Len(s.constraints)
    \/ \E o \in overlaps_at(s, idx) :
          \/ o >= Len(s.constraints)
          \/ ~ (variables(At(s.constraints, o)) \subseteq DOMAIN s.references)

turn_detached(s, idx) ==
    LET overlaps == overlaps_at(s, idx)
    IN  [v \in DOMAIN s.references |->
            s.references[v] \ { o \in overlaps : v \in variables(At(s.constraints, o)) }]

turn_reduced(s, idx) ==
    [o \in overlaps_at(s, idx) |-> reduce(At(s.constraints, o), At(s.constraints, idx))]

\* A turn that ignores the conflicts its reduce calls report.
turn_never_conflicts(s, idx) == FALSE

turn_conflicts(s, idx) ==
    \E o \in overlaps_at(s, idx) : turn_reduced(s, idx)[o].res = "err"

\* A turn that does not enqueue the constraints it reduced.
turn_ok_unqueued(s, idx) ==
    LET overlaps == overlaps_at(s, idx)
        red == turn_reduced(s, idx)
        cons == [k \in 1 .. Len(s.constraints) |->
                    IF (k - 1) \in overlaps THEN red[k - 1].c ELSE s.constraints[k]]
        detached == turn_detached(s, idx)
    IN  [constraints |-> cons,
         idx_map |-> s.idx_map,
         references |-> [v \in DOMAIN detached |->
                            detached[v] \cup { o \in overlaps : v \in variables(At(cons, o)) }],
         to_minimise |-> s.to_minimise]

\* The System after a turn in which no reduce call failed.
turn_ok(s, idx) ==
    LET overlaps == overlaps_at(s, idx)
        red == turn_reduced(s, idx)
        cons == [k \in 1 .. Len(s.constraints) |->
                    IF (k - 1) \in overlaps THEN red[k - 1].c ELSE s.constraints[k]]
        detached == turn_detached(s, idx)
    IN  [constraints |-> cons,
         idx_map |-> s.idx_map,
         references |-> [v \in DOMAIN detached |->
                            detached[v] \cup { o \in overlaps : v \in variables(At(cons, o)) }],
         to_minimise |-> s.to_minimise \cup { o \in overlaps : red[o].res = "true" }]

\* The Systems minimise may leave behind when a reduce call of the turn
\* fails: the overlapping positions are visited in the HashSet's order, so
\* any set `done` of positions whose reduce succeeds may have been reduced
\* before the failing call, whose own constraint is left as reduce left it;
\* the early return leaves the placeholder at idx and the overlapping
\* constraints de-registered.
turn_conflict_outcomes(s, idx) ==
    LET overlaps == overlaps_at(s, idx)
        red == turn_reduced(s, idx)
        failing == { o \in overlaps : red[o].res = "err" }
    IN  { [constraints |->
              [k \in 1 .. Len(s.constraints) |->
                  IF k - 1 = idx THEN Placeholder
                  ELSE IF (k - 1) \in o[2] \cup {o[1]} THEN red[k - 1].c
                  ELSE s.constraints[k]],
           idx_map |-> s.idx_map,
           references |-> turn_detached(s, idx),
           to_minimise |-> s.to_minimise] :
          o \in failing \X SUBSET (overlaps \ failing) }

RECURSIVE minimise(_)
\* System::minimise. res is "ok", "conflict" or "panic". On "ok" sys is the
\* System left behind; on "conflict" sys is the System at the start of the
\* failing turn (position `at` already popped), whose possible remains are
\* turn_conflict_outcomes(sys, at).
minimise(s) ==
    IF s.to_minimise = {}
    THEN [res |-> "ok", sys |-> s, at |-> 0]
    ELSE LET idx == Least(s.to_minimise)
             popped == [s EXCEPT !.to_minimise = @ \ {idx}]
         IN  IF turn_panics(popped, idx)
             THEN [res |-> "panic", sys |-> popped, at |-> idx]
             ELSE IF turn_conflicts(popped, idx)
             THEN [res |-> "conflict", sys |-> popped, at |-> idx]
             ELSE minimise(turn_ok(popped, idx))

RECURSIVE pop_each(_, _, _)
\* The `for (idx, constraint)` loop of System::pop_solution from position idx
\* on, with the solution accumulated so far.
pop_each(s, idx, solution) ==
    IF idx >= Len(s.constraints)
    THEN [sys |-> s, sol |-> solution]
    ELSE LET constraint == At(s.constraints, idx)
             p == cons_pop_solution(constraint)
             to_remove == variables(constraint) \ variables(p.c)
         IN  IF p.sol = None
             THEN pop_each(s, idx + 1, solution)
             ELSE pop_each([s EXCEPT !.constraints = ReplaceAt(@, idx, p.c),
                                     !.references = Unregister(@, to_remove, idx)],
                           idx + 1,
                           assign_union(solution, p.sol[1]))

RECURSIVE remove_each_smallest_first(_, _)
\* remove_idx for every position of idxs, smallest first.
remove_each_smallest_first(s, idxs) ==
    IF idxs = {}
    THEN s
    ELSE remove_each_smallest_first(remove_idx(s, Least(idxs)).sys, idxs \ {Least(idxs)})

RECURSIVE remove_each(_, _)
\* remove_idx for every position of idxs, largest first.
remove_each(s, idxs) ==
    IF idxs = {}
    THEN s
    ELSE LET idx == CHOOSE x \in idxs : \A y \in idxs : y <= x
         IN  remove_each(remove_idx(s, idx).sys, idxs \ {idx})

\* remove_empty that sweeps nothing.
remove_empty_nothing(s) == s

\* System::remove_empty
remove_empty(s) ==
    LET idxs == { i \in Positions(s.constraints) : variables(At(s.constraints, i)) = {} }
        cleared == IF Cardinality(idxs) = Len(s.constraints)
                   THEN [s EXCEPT !.constraints = << >>, !.references = EmptyMap]
                   ELSE s
    IN  remove_each(cleared, idxs)

\* System::pop_solution. res and at are those of minimise; on "ok" sol is
\* the returned assignment.
pop_solution(s) ==
    LET m == IF s.to_minimise # {} THEN minimise(s)
             ELSE [res |-> "ok", sys |-> s, at |-> 0]
    IN  IF m.res # "ok"
        THEN [res |-> m.res, sys |-> m.sys, at |-> m.at, sol |-> SolutionDefault]
        ELSE LET popped == pop_each(m.sys, 0, SolutionDefault)
             IN  [res |-> "ok", sys |-> remove_empty(popped.sys), at |-> 0,
                  sol |-> popped.sol]

\* DefaultHeuristic::rank
rank(s, idx) ==
    << 0 - size(At(s.constraints, idx)), Cardinality(overlaps_at(s, idx)) >>

RankLeq(a, b) == a[1] < b[1] \/ (a[1] = b[1] /\ a[2] <= b[2])

\* A choice that takes the first constraint whatever the ranks.
best_constraint_first(s) == 0

\* System::best_constraint with the default heuristic, as a position:
\* Iterator::max_by_key returns the last element of maximum key.
best_constraint(s) ==
    CHOOSE i \in Positions(s.constraints) :
        \A j \in Positions(s.constraints) :
            /\ RankLeq(rank(s, j), rank(s, i))
            /\ (j > i => rank(s, j) # rank(s, i))

RECURSIVE push_decompositions_last_first(_, _, _, _)
\* A loop that pushes the frame of the last decomposition first.
push_decompositions_last_first(stack, system, solution, ds) ==
    IF ds = << >>
    THEN [stack |-> stack, panic |-> FALSE]
    ELSE LET r == push_decompositions_last_first(stack, system, solution, Tail(ds))
             p == pop_solution(insert(system, Head(ds)).sys)
         IN  IF p.res = "panic" \/ r.panic
             THEN [stack |-> stack, panic |-> TRUE]
             ELSE IF p.res = "conflict"
             THEN r
             ELSE [stack |-> Append(r.stack, [system |-> p.sys,
                                              solution |-> assign_union(solution, p.sol)]),
                   panic |-> FALSE]

RECURSIVE push_decompositions(_, _, _, _)
\* The `for decomposition in best.decompositions()` loop of SystemIter::next:
\* ds are the decompositions still to visit. panic is set when a
\* pop_solution call panics.
push_decompositions(stack, system, solution, ds) ==
    IF ds = << >>
    THEN [stack |-> stack, panic |-> FALSE]
    ELSE LET new_sys == insert(system, Head(ds)).sys
             p == pop_solution(new_sys)
         IN  IF p.res = "panic"
             THEN [stack |-> stack, panic |-> TRUE]
             ELSE IF p.res = "conflict"
             THEN push_decompositions(stack, system, solution, Tail(ds))
             ELSE push_decompositions(
                      Append(stack, [system |-> p.sys,
                                     solution |-> assign_union(solution, p.sol)]),
                      system, solution, Tail(ds))

\* ------------------------------------------------------------------- state
\* constraints, idx_map, references, to_minimise: the fields of the caller's
\*   System.
\* placeholder_at: the positions of constraints that hold the placeholder of
\*   minimise instead of a constraint.
\* status: "open" while the caller holds the System; "iterating" once solve
\*   has taken it (the four fields then keep the value they had at the call);
\*   "done" once next() has returned None; "conflict" after minimise or
\*   pop_solution returned an error; "panic" after an operation panicked.
\* ret: the last operation, its argument and the value it returned.
\* stack: SystemIter::stack.
\* yielded: the assignments next() has returned so far.
VARIABLES constraints, idx_map, references, to_minimise, placeholder_at,
          status, ret, stack, yielded, ops

vars == << family, constraints, idx_map, references, to_minimise,
           placeholder_at, status, ret, stack, yielded, ops >>

Sys ==
    [constraints |-> constraints, idx_map |-> idx_map,
     references |-> references, to_minimise |-> to_minimise]

SetSys(s) ==
    /\ constraints' = s.constraints
    /\ idx_map' = s.idx_map
    /\ references' = s.references
    /\ to_minimise' = s.to_minimise

Returned(op, arg, val) == ret' = [op |-> op, arg |-> arg, val |-> val]

\* One more operation of the caller.
Counted ==
    /\ ops < MaxOps
    /\ ops' = ops + 1

\* The constraints a caller may build: MineConstraint::new(tiles, k), k <= n.
InputConstraints ==
    { MineConstraintNew(T, k) : T \in SUBSET Tiles, k \in 0 .. NumTiles }
    \cap { c \in [tiles : SUBSET Tiles, count : 0 .. NumTiles] :
             c.count <= Cardinality(c.tiles) }

InputSequences ==
    UNION { [1 .. n -> InputConstraints] : n \in 1 .. MaxExtend }

\* System::default()
Init ==
    /\ family = "mines"
    /\ constraints = << >>
    /\ idx_map = EmptyMap
    /\ references = EmptyMap
    /\ to_minimise = {}
    /\ placeholder_at = {}
    /\ status = "open"
    /\ ret = [op |-> "default", arg |-> None, val |-> None]
    /\ stack = << >>
    /\ yielded = {}
    /\ ops = 0

\* sys.extend(cs); System::from_iter(cs) and System::from(cs) are this call on
\* the default System.
Extend(cs) ==
    /\ status = "open"
    /\ Counted
    /\ Len(constraints) + Len(cs) <= MaxLen
    /\ SetSys(extend(Sys, cs))
    /\ Returned("extend", cs, None)
    /\ UNCHANGED << family, placeholder_at, status, stack, yielded >>

\* sys.insert(c)
Insert(c) ==
    /\ status = "open"
    /\ Counted
    /\ Len(constraints) < MaxLen
    /\ LET r == insert(Sys, c)
       IN  /\ SetSys(r.sys)
           /\ Returned("insert", c, r.ret)
    /\ UNCHANGED << family, placeholder_at, status, stack, yielded >>

\* sys.remove(&c)
Remove(c) ==
    /\ status = "open"
    /\ Counted
    /\ LET r == remove(Sys, c)
       IN  /\ SetSys(r.sys)
           /\ Returned("remove", c, r.ret)
           /\ status' = IF r.panic THEN "panic" ELSE status
    /\ UNCHANGED << family, placeholder_at, stack, yielded >>

\* sys.queue_all()
QueueAll ==
    /\ status = "open"
    /\ Counted
    /\ SetSys(queue_all(Sys))
    /\ Returned("queue_all", None, None)
    /\ UNCHANGED << family, placeholder_at, status, stack, yielded >>

\* What an operation that ran minimise leaves in the caller's System when
\* minimise did not return Ok.
Failed(m, op) ==
    /\ status' = m.res
    /\ Returned(op, None, None)
    /\ IF m.res = "conflict"
       THEN /\ \E out \in turn_conflict_outcomes(m.sys, m.at) : SetSys(out)
            /\ placeholder_at' = {m.at}
       ELSE /\ SetSys(m.sys)
            /\ placeholder_at' = placeholder_at

\* sys.minimise()
Minimise ==
    /\ status = "open"
    /\ Counted
    /\ LET m == minimise(Sys)
       IN  IF m.res = "ok"
           THEN /\ SetSys(m.sys)
                /\ Returned("minimise", None, None)
                /\ UNCHANGED << placeholder_at, status >>
           ELSE Failed(m, "minimise")
    /\ UNCHANGED << family, stack, yielded >>

\* sys.pop_solution()
PopSolution ==
    /\ status = "open"
    /\ Counted
    /\ LET p == pop_solution(Sys)
       IN  IF p.res = "ok"
           THEN /\ SetSys(p.sys)
                /\ Returned("pop_solution", None, Some(p.sol))
                /\ UNCHANGED << placeholder_at, status >>
           ELSE Failed(p, "pop_solution")
    /\ UNCHANGED << family, stack, yielded >>

\* sys.solve(): solve_with(DefaultHeuristic). The System is moved into the
\* iterator; its four fields keep the value they had at the call.
Solve ==
    /\ status = "open"
    /\ UNCHANGED ops
    /\ LET p == pop_solution(Sys)
       IN  /\ status' = IF p.res = "panic" THEN "panic" ELSE "iterating"
           /\ stack' = IF p.res = "ok"
                       THEN << [system |-> p.sys, solution |-> p.sol] >>
                       ELSE << >>
    /\ Returned("solve", None, None)
    /\ UNCHANGED << family, constraints, idx_map, references, to_minimise,
                    placeholder_at, yielded >>

\* One pass of the `while let` loop of SystemIter::next: the call returns
\* when the pass yields a solution (ret.op = "next", ret.val = Some) or finds
\* the stack empty (ret.val = None); otherwise the loop goes on
\* (ret.op = "next_loop").
NextLoop ==
    /\ status = "iterating"
    /\ IF stack = << >>
       THEN /\ status' = "done"
            /\ Returned("next", None, None)
            /\ UNCHANGED << stack, yielded >>
       ELSE LET top == stack[Len(stack)]
                rest == Pop(stack)
            IN  IF is_empty(top.system)
                THEN /\ stack' = rest
                     /\ yielded' = yielded \cup {top.solution}
                     /\ Returned("next", None, Some(top.solution))
                     /\ UNCHANGED status
                ELSE /\ Len(stack) <= MaxStack
                     /\ LET best == At(top.system.constraints, best_constraint(top.system))
                        IN  \E order \in iteration_orders(best) :
                              LET r == push_decompositions(
                                           rest, top.system, top.solution,
                                           decompositions(best, order))
                              IN  /\ stack' = r.stack
                                  /\ status' = IF r.panic THEN "panic" ELSE status
                     /\ Returned("next_loop", None, None)
                     /\ UNCHANGED yielded
    /\ UNCHANGED << family, constraints, idx_map, references, to_minimise,
                    placeholder_at, ops >>

Next ==
    \/ \E cs \in InputSequences : Extend(cs)
    \/ \E c \in InputConstraints : Insert(c)
    \/ \E c \in InputConstraints : Remove(c)
    \/ QueueAll
    \/ Minimise
    \/ PopSolution
    \/ Solve
    \/ NextLoop

Spec == Init /\ [][Next]_vars

\* The caller's operations without remove and pop_solution: construction
\* from a sequence, insert, queue_all and minimise, then solve.
NextBuild ==
    \/ \E cs \in InputSequences : Extend(cs)
    \/ \E c \in InputConstraints : Insert(c)
    \/ QueueAll
    \/ Minimise
    \/ Solve
    \/ NextLoop

SpecBuild == Init /\ [][NextBuild]_vars

\* A caller that never hands the System a constraint twice: every sequence
\* given to extend holds distinct constraints, none of them resident.
Fresh(cs) ==
    /\ \A i, j \in DOMAIN cs : i # j => cs[i] # cs[j]
    /\ \A i \in DOMAIN cs : \A k \in DOMAIN constraints : constraints[k] # cs[i]

\* sys.extend(cs) by such a caller.
ExtendFresh(cs) ==
    /\ Fresh(cs)
    /\ Extend(cs)

NextDistinct ==
    \/ \E cs \in InputSequences : ExtendFresh(cs)
    \/ \E c \in InputConstraints : Insert(c)
    \/ \E c \in InputConstraints : Remove(c)
    \/ QueueAll
    \/ Minimise
    \/ PopSolution
    \/ Solve
    \/ NextLoop

SpecDistinct == Init /\ [][NextDistinct]_vars

\* -------------------------------------------------- both constraint types
\* Mine constraints over one more tile than Tiles, as the tests of
\* mines/test.rs build them.
WideTiles == 0 .. (NumWideTiles - 1)

WideConstraints ==
    { c \in [tiles : SUBSET WideTiles, count : 0 .. NumWideTiles] :
        c.count <= Cardinality(c.tiles) }

\* A tuple of a table, as the array of (variable, value) pairs the tests pass
\* to DiscreteConstraint::from_iter.
Row(columns, values) == [k \in DOMAIN columns |-> << columns[k], values[k] >>]

\* The tables of generic/test.rs (constraints::conflicts and the four tests
\* of solver), one of them also with its columns in another order.
TestRows ==
    { << Row(<< "a", "b" >>, << TRUE, FALSE >>),
         Row(<< "a", "b" >>, << FALSE, TRUE >>) >>,
      << Row(<< "a", "b", "c" >>, << TRUE, FALSE, TRUE >>) >>,
      << Row(<< "a", "b", "c" >>, << TRUE, FALSE, TRUE >>),
         Row(<< "a", "b", "c" >>, << FALSE, TRUE, TRUE >>) >>,
      << Row(<< "a", "b", "c" >>, << TRUE, TRUE, FALSE >>),
         Row(<< "a", "b", "c" >>, << TRUE, FALSE, TRUE >>) >>,
      << Row(<< "c", "a", "b" >>, << FALSE, TRUE, TRUE >>),
         Row(<< "c", "a", "b" >>, << TRUE, TRUE, FALSE >>) >>,
      << Row(<< "a", "b", "c", "d" >>, << TRUE, FALSE, TRUE, FALSE >>),
         Row(<< "a", "b", "c", "d" >>, << TRUE, FALSE, TRUE, TRUE >>),
         Row(<< "a", "b", "c", "d" >>, << FALSE, TRUE, TRUE, TRUE >>) >>,
      << Row(<< "a", "b" >>, << FALSE, TRUE >>),
         Row(<< "a", "b" >>, << FALSE, FALSE >>) >> }

TestTables == { disc_from_iter(rows).c : rows \in TestRows }

\* The constraints of mines/test.rs (solver) and of the example of
\* mines/errors.rs.
TestMines ==
    { MineConstraintNew({0, 1}, 1), MineConstraintNew({0, 1}, 0),
      MineConstraintNew({0, 1, 2}, 2), MineConstraintNew({1, 2}, 1),
      MineConstraintNew({0, 1}, 2) }

FamilyConstraints ==
    IF family = "mines" THEN TestMines ELSE TestTables

FamilySequences ==
    UNION { [1 .. n -> FamilyConstraints] : n \in 1 .. MaxExtend }

\* System::<C>::default() for either constraint type C.
InitFamilies ==
    /\ family \in {"mines", "generic"}
    /\ constraints = << >>
    /\ idx_map = EmptyMap
    /\ references = EmptyMap
    /\ to_minimise = {}
    /\ placeholder_at = {}
    /\ status = "open"
    /\ ret = [op |-> "default", arg |-> None, val |-> None]
    /\ stack = << >>
    /\ yielded = {}
    /\ ops = 0

\* Construction, insert, minimise and pop_solution on a System of either
\* constraint type.
NextFamilies ==
    \/ \E cs \in FamilySequences : Extend(cs)
    \/ \E c \in FamilyConstraints : Insert(c)
    \/ Minimise
    \/ PopSolution

SpecFamilies == InitFamilies /\ [][NextFamilies]_vars

\* ------------------------------------------------ reduce on its own
\* Tables over the variable lists TableColumns with Boolean values: every
\* non-empty set of tuples, as from_iter builds it from its rows, and the
\* table from_iter builds from no rows.
TableColumns == { << "a" >>, << "a", "b" >>, << "b", "a" >>, << "b", "c" >> }

SmallTables ==
    UNION { { DiscreteConstraintOf(columns, tuples) :
                tuples \in (SUBSET [1 .. Len(columns) -> BOOLEAN]) \ {{}} } :
            columns \in TableColumns }
    \cup {DiscreteConstraintDefault}

ReduceInputs ==
    IF family = "mines" THEN WideConstraints ELSE SmallTables \cup TestTables

\* Two constraints of one type, nothing called yet.
InitReduce ==
    /\ family \in {"mines", "generic"}
    /\ constraints = << >>
    /\ idx_map = EmptyMap
    /\ references = EmptyMap
    /\ to_minimise = {}
    /\ placeholder_at = {}
    /\ status = "open"
    /\ \E self \in ReduceInputs, other \in ReduceInputs :
          ret = [op |-> "new", arg |-> << self, other >>, val |-> None]
    /\ stack = << >>
    /\ yielded = {}
    /\ ops = 0

\* self.reduce(&other): ret.arg is (self before the call, other), ret.val the
\* result and self after the call; a further call acts on self as the last
\* call left it.
Reduce ==
    /\ Counted
    /\ LET self == IF ret.op = "reduce" THEN ret.val.c ELSE ret.arg[1]
           other == ret.arg[2]
       IN  Returned("reduce", << self, other >>, reduce(self, other))
    /\ UNCHANGED << family, constraints, idx_map, references, to_minimise,
                    placeholder_at, status, stack, yielded >>

SpecReduce == InitReduce /\ [][Reduce]_vars

\* ------------------------------------------- assignments on their own
\* Assignment::intersection, resolved per assignment type.
intersection(self, other) ==
    IF family = "mines" THEN assign_intersection(self, other)
    ELSE disc_intersection(self, other)

\* Variables of the tabular assignments; their values are Booleans.
AssignVars == {"a", "b"}

\* The assignments the public constructors build: MineAssignment::new(safe,
\* mines) from any two tile collections, DiscreteAssignment::from_iter from
\* any pairs (a HashMap: one value per variable).
AssignInputs ==
    IF family = "mines"
    THEN { MineAssignmentNew(safe, mines) : safe \in SUBSET Tiles, mines \in SUBSET Tiles }
    ELSE UNION { [D -> BOOLEAN] : D \in SUBSET AssignVars }

\* Three assignments of one type, nothing called yet. ret.arg keeps the three;
\* ret.val holds the operands and the result of the last call.
InitAssign ==
    /\ family \in {"mines", "generic"}
    /\ constraints = << >>
    /\ idx_map = EmptyMap
    /\ references = EmptyMap
    /\ to_minimise = {}
    /\ placeholder_at = {}
    /\ status = "open"
    /\ \E a \in AssignInputs, b \in AssignInputs, c \in AssignInputs :
          ret = [op |-> "new", arg |-> << a, b, c >>, val |-> None]
    /\ stack = << >>
    /\ yielded = {}
    /\ ops = 0

\* The assignments a call may take as self: the three built and the result
\* of the last call.
InHand ==
    { ret.arg[k] : k \in DOMAIN ret.arg }
    \cup (IF ret.op = "new" THEN {} ELSE {ret.val.out})

\* self.union(other)
Union(self, other) ==
    /\ ops < MaxCalls
    /\ ops' = ops + 1
    /\ Returned("union", ret.arg,
                [self |-> self, other |-> other, out |-> assign_union(self, other)])
    /\ UNCHANGED << family, constraints, idx_map, references, to_minimise,
                    placeholder_at, status, stack, yielded >>

\* self.intersection(other)
Intersection(self, other) ==
    /\ ops < MaxCalls
    /\ ops' = ops + 1
    /\ Returned("intersection", ret.arg,
                [self |-> self, other |-> other, out |-> intersection(self, other)])
    /\ UNCHANGED << family, constraints, idx_map, references, to_minimise,
                    placeholder_at, status, stack, yielded >>

NextAssign ==
    \/ \E self \in InHand, other \in InHand : Union(self, other)
    \/ \E self \in InHand, other \in InHand : Intersection(self, other)

SpecAssign == InitAssign /\ [][NextAssign]_vars

\* ------------------------------------------- constraints on their own
\* self as the last call left it.
CurrentSelf == IF ret.op = "new" THEN ret.arg[1] ELSE ret.val.c

\* The last call was a reduce that reported a conflict; the caller stops
\* there, as System::minimise does.
Conflicted == ret.op = "reduce" /\ ret.val.res = "err"

\* self.reduce(&other): ret.arg is (self before the call, other), ret.val the
\* answer and self after the call.
ReduceSelf ==
    /\ ~ Conflicted
    /\ ops < MaxCalls
    /\ ops' = ops + 1
    /\ Returned("reduce", << CurrentSelf, ret.arg[2] >>, reduce(CurrentSelf, ret.arg[2]))
    /\ UNCHANGED << family, constraints, idx_map, references, to_minimise,
                    placeholder_at, status, stack, yielded >>

\* self.pop_solution(): ret.val is the Option returned and self after the call.
PopSelf ==
    /\ ~ Conflicted
    /\ ops < MaxCalls
    /\ ops' = ops + 1
    /\ Returned("pop_solution", << CurrentSelf, ret.arg[2] >>, cons_pop_solution(CurrentSelf))
    /\ UNCHANGED << family, constraints, idx_map, references, to_minimise,
                    placeholder_at, status, stack, yielded >>

\* self.decompositions().collect(): ret.val.out is the sequence yielded, in
\* one of the orders the HashSet of self may be iterated in.
Decompose ==
    /\ ~ Conflicted
    /\ ops < MaxCalls
    /\ ops' = ops + 1
    /\ \E order \in iteration_orders(CurrentSelf) :
          Returned("decompositions", << CurrentSelf, ret.arg[2] >>,
                   [out |-> decompositions(CurrentSelf, order), c |-> CurrentSelf])
    /\ UNCHANGED << family, constraints, idx_map, references, to_minimise,
                    placeholder_at, status, stack, yielded >>

NextConstraint == ReduceSelf \/ PopSelf \/ Decompose

\* Two constraints of one type from the public constructors, then calls of
\* the Constraint trait on the first.
SpecConstraint == InitReduce /\ [][NextConstraint]_vars

\* ------------------------------------------------ from_iter on its own
MaxRows == 2

\* The variable lists of the rows handed to from_iter.
RowColumns == { << "a" >>, << "a", "b" >>, << "b", "a" >>, << "a", "c" >> }

\* The rows: every list of RowColumns with every choice of Boolean values.
InputRows ==
    UNION { { Row(columns, values) : values \in [1 .. Len(columns) -> BOOLEAN] } :
            columns \in RowColumns }

RowSequences == UNION { [1 .. n -> InputRows] : n \in 0 .. MaxRows }

\* A sequence of rows, from_iter not called yet.
InitFromIter ==
    /\ family = "generic"
    /\ constraints = << >>
    /\ idx_map = EmptyMap
    /\ references = EmptyMap
    /\ to_minimise = {}
    /\ placeholder_at = {}
    /\ status = "open"
    /\ \E rows \in RowSequences : ret = [op |-> "new", arg |-> rows, val |-> None]
    /\ stack = << >>
    /\ yielded = {}
    /\ ops = 0

\* DiscreteConstraint::from_iter(rows): ret.val is the constraint built and
\* whether the consistency assertion failed.
FromIter ==
    /\ ret.op = "new"
    /\ Counted
    /\ Returned("from_iter", ret.arg, disc_from_iter(ret.arg))
    /\ status' = IF disc_from_iter(ret.arg).panic THEN "panic" ELSE status
    /\ UNCHANGED << family, constraints, idx_map, references, to_minimise,
                    placeholder_at, stack, yielded >>

SpecFromIter == InitFromIter /\ [][FromIter]_vars

\* ------------------------------------------- minimise turn by turn
\* sys.minimise() is entered: the `while let` loop is about to start.
MinimiseBegin ==
    /\ status = "open"
    /\ Counted
    /\ status' = "minimising"
    /\ Returned("minimise_call", None, None)
    /\ UNCHANGED << family, constraints, idx_map, references, to_minimise,
                    placeholder_at, stack, yielded >>

\* A turn that enqueues every overlapping position, reduced or not.
turn_outcomes_enqueues_overlaps(popped, idx) ==
    IF turn_panics(popped, idx)
    THEN { [sys |-> popped, status |-> "panic", placeholder |-> placeholder_at,
            reduced |-> {}] }
    ELSE IF turn_conflicts(popped, idx)
    THEN { [sys |-> out, status |-> "conflict", placeholder |-> {idx},
            reduced |-> {}] : out \in turn_conflict_outcomes(popped, idx) }
    ELSE { [sys |-> [turn_ok(popped, idx) EXCEPT
                        !.to_minimise = @ \cup overlaps_at(popped, idx)],
            status |-> "minimising",
            placeholder |-> placeholder_at,
            reduced |-> overlaps_at(popped, idx)] }

\* What one turn of the `while let` loop may leave, for the System `popped`
\* from whose to_minimise the position idx has just been popped: the System,
\* the state of the call, the slot holding the placeholder and the positions
\* whose reduce returned Ok(true).
turn_outcomes(popped, idx) ==
    IF turn_panics(popped, idx)
    THEN { [sys |-> popped, status |-> "panic", placeholder |-> placeholder_at,
            reduced |-> {}] }
    ELSE IF turn_conflicts(popped, idx)
    THEN { [sys |-> out, status |-> "conflict", placeholder |-> {idx},
            reduced |-> {}] : out \in turn_conflict_outcomes(popped, idx) }
    ELSE { [sys |-> turn_ok(popped, idx), status |-> "minimising",
            placeholder |-> placeholder_at,
            reduced |-> { o \in DOMAIN turn_reduced(popped, idx) :
                            turn_reduced(popped, idx)[o].res = "true" }] }

\* One turn of the `while let` loop: the first pending position is popped and
\* every overlapping constraint is reduced by the constraint there. ret.arg
\* is the position, ret.val the positions whose reduce returned Ok(true).
MinimiseTurn ==
    /\ status = "minimising"
    /\ to_minimise # {}
    /\ \E out \in turn_outcomes([Sys EXCEPT !.to_minimise = @ \ {Least(to_minimise)}],
                                Least(to_minimise)) :
          /\ SetSys(out.sys)
          /\ status' = out.status
          /\ placeholder_at' = out.placeholder
          /\ Returned("turn", Least(to_minimise), out.reduced)
    /\ UNCHANGED << family, stack, yielded, ops >>

\* The loop finds nothing pending and minimise returns Ok.
MinimiseEnd ==
    /\ status = "minimising"
    /\ to_minimise = {}
    /\ status' = "open"
    /\ Returned("minimise", None, None)
    /\ UNCHANGED << family, constraints, idx_map, references, to_minimise,
                    placeholder_at, stack, yielded, ops >>

\* The constraints the Systems to minimise are built from: the mine
\* constraints of the tests and five small tables.
TurnTables ==
    { DiscreteConstraintOf(<< "a", "b" >>, { << TRUE, FALSE >>, << FALSE, TRUE >> }),
      DiscreteConstraintOf(<< "a", "b" >>, { << TRUE, TRUE >>, << TRUE, FALSE >> }),
      DiscreteConstraintOf(<< "b", "a" >>, { << TRUE, FALSE >> }),
      DiscreteConstraintOf(<< "b", "c" >>, { << TRUE, TRUE >>, << FALSE, TRUE >> }),
      DiscreteConstraintOf(<< "a" >>, { << TRUE >> }) }

TurnConstraints == IF family = "mines" THEN TestMines ELSE TurnTables

TurnSequences == UNION { [1 .. n -> TurnConstraints] : n \in 1 .. MaxExtend }

NextTurns ==
    \/ \E cs \in TurnSequences : Extend(cs)
    \/ \E c \in TurnConstraints : Insert(c)
    \/ \E c \in TurnConstraints : Remove(c)
    \/ QueueAll
    \/ PopSolution
    \/ MinimiseBegin
    \/ MinimiseTurn
    \/ MinimiseEnd

\* The loop of minimise goes on until it returns: it waits for nothing.
SpecTurns ==
    /\ InitFamilies
    /\ [][NextTurns]_vars
    /\ WF_vars(MinimiseTurn)
    /\ WF_vars(MinimiseEnd)

\* ------------------------------------------- the search over four tiles
\* Constraints over four tiles in a row: the pairs of neighbours, a triple
\* and the whole row.
SearchConstraints ==
    { MineConstraintNew({0, 1}, 1), MineConstraintNew({1, 2}, 1),
      MineConstraintNew({2, 3}, 1), MineConstraintNew({1, 2, 3}, 1),
      MineConstraintNew({1, 2, 3}, 2), MineConstraintNew({0, 1, 2, 3}, 2) }

SearchSequences ==
    UNION { [1 .. n -> SearchConstraints] : n \in 1 .. MaxExtend }

NextSearch ==
    \/ \E cs \in SearchSequences : Extend(cs)
    \/ Solve
    \/ NextLoop

SpecSearch == Init /\ [][NextSearch]_vars

\* ------------------------------------------------------------- properties
\* What a mine constraint means: assignment a binds every tile of c and
\* marks exactly c.count of them as mines.
Satisfies(a, c) ==
    /\ c.tiles \subseteq a.safe_tiles \cup a.mine_tiles
    /\ a.safe_tiles \cap a.mine_tiles = {}
    /\ Cardinality(c.tiles \cap a.mine_tiles) = c.count

Resident(cs, c) == \E i \in Positions(cs) : At(cs, i) = c

ResidentVars == UNION { variables(At(constraints, i)) : i \in Positions(constraints) }

\* The total assignments over the resident variables that satisfy every
\* resident constraint.
Solutions ==
    { a \in { MineAssignmentNew(ResidentVars \ m, m) : m \in SUBSET ResidentVars } :
        \A i \in Positions(constraints) : Satisfies(a, At(constraints, i)) }

\* The step is a call of the caller's operation op.
Called(op) == ret'.op = op /\ ops' = ops + 1

\* C1: every assignment yielded by solve() binds every variable of, and
\* satisfies, every constraint that was resident when solve was called.
C1_YieldedSatisfyResident ==
    \A a \in yielded :
        \A i \in Positions(constraints) : Satisfies(a, At(constraints, i))

\* C2: once the iteration is over (next() returned None, or solve()/next()
\* panicked), every total assignment satisfying every resident constraint has
\* been yielded.
C2_SolveComplete ==
    (status \in {"done", "panic"} /\ ret.op \in {"solve", "next", "next_loop"})
        => Solutions \subseteq yielded

\* reduce(constraints[i], constraints[j]) returns Ok(false) for every pair of
\* distinct positions whose constraints share a variable.
FixedPoint(cs) ==
    \A i, j \in Positions(cs) :
        (i # j /\ variables(At(cs, i)) \cap variables(At(cs, j)) # {})
            => reduce(At(cs, i), At(cs, j)).res = "false"

\* C3: after minimise returns success the System is at a propagation fixed
\* point.
C3_MinimiseFixedPoint ==
    (status = "open" /\ ret.op = "minimise") => FixedPoint(constraints)

\* Invariant R of a System.
InvariantR(s) ==
    /\ \A i \in Positions(s.constraints) :
          \A v \in variables(At(s.constraints, i)) :
              v \in DOMAIN s.references /\ i \in s.references[v]
    /\ \A v \in DOMAIN s.references :
          \A i \in s.references[v] :
              i < Len(s.constraints) /\ v \in variables(At(s.constraints, i))

\* C4: Invariant R holds after every public operation that returns normally:
\* on the caller's System while every call so far has returned normally, and
\* on every System the search holds on its stack.
C4_InvariantR ==
    /\ status = "open" => InvariantR(Sys)
    /\ \A k \in DOMAIN stack : InvariantR(stack[k].system)

\* A remove has returned a constraint and a constraint with variables now
\* sits at another position than the one it was inserted at (it was swapped
\* into the vacated position).
C4_Witness ==
    /\ status = "open"
    /\ ret.op = "remove"
    /\ ret.val # None
    /\ \E i \in Positions(constraints) :
          /\ variables(At(constraints, i)) # {}
          /\ default_hash(At(constraints, i)) \in DOMAIN idx_map
          /\ idx_map[default_hash(At(constraints, i))] # i

\* C5: idx_map agrees with the physical storage after every public
\* operation.
C5_IdxMapAgrees ==
    status = "open" =>
        /\ \A i \in Positions(constraints) :
              /\ default_hash(At(constraints, i)) \in DOMAIN idx_map
              /\ idx_map[default_hash(At(constraints, i))] = i
        /\ \A h \in DOMAIN idx_map :
              /\ idx_map[h] < Len(constraints)
              /\ default_hash(At(constraints, idx_map[h])) = h

\* C6: after every public operation every position in to_minimise lies in
\* [0, len).
C6_PendingInRange ==
    status = "open" => to_minimise \subseteq Positions(constraints)

\* C7: the constraints sequence never holds two equal constraints.
C7_NoDuplicates ==
    status = "open" =>
        \A i, j \in Positions(constraints) :
            i # j => At(constraints, i) # At(constraints, j)

\* C8: insert(c) returns true if and only if a constraint equal to c is
\* resident at the moment of the call.
C8_InsertReportsResident ==
    [][Called("insert") => (ret'.val <=> Resident(constraints, ret'.arg))]_vars

\* C9: remove(&c) that returns normally returns None exactly when c was not
\* resident, returns Some(x) only with x = c, and afterwards c is not
\* resident while every other resident constraint still is.
C9_RemoveExact ==
    [][(Called("remove") /\ status' = "open") =>
          /\ (ret'.val = None) <=> ~ Resident(constraints, ret'.arg)
          /\ ret'.val # None => ret'.val[1] = ret'.arg
          /\ ~ Resident(constraints', ret'.arg)
          /\ \A i \in Positions(constraints) :
                At(constraints, i) # ret'.arg
                    => Resident(constraints', At(constraints, i))]_vars

\* C10: an insert that reports a duplicate leaves the System unchanged; one
\* that returns false stores c at position old-len behind the unchanged
\* residents, enqueues that position and registers it for every variable of c.
C10_InsertFrame ==
    [][Called("insert") =>
          IF ret'.val
          THEN UNCHANGED << constraints, idx_map, references, to_minimise >>
          ELSE /\ constraints' = Append(constraints, ret'.arg)
               /\ Len(constraints) \in to_minimise'
               /\ \A v \in variables(ret'.arg) :
                     v \in DOMAIN references' /\ Len(constraints) \in references'[v]]_vars

\* An insert has stored a constraint with variables behind an earlier one.
C10_Witness ==
    /\ ret.op = "insert"
    /\ ret.val = FALSE
    /\ Len(constraints) >= 2
    /\ variables(ret.arg) # {}
    /\ At(constraints, Len(constraints) - 1) = ret.arg

\* Some reduce call of the turn of position idx returns a conflict.
ReduceFails(s, idx) ==
    \E o \in overlaps_at(s, idx) :
        reduce(At(s.constraints, o), At(s.constraints, idx)).res = "err"

RECURSIVE FirstConflict(_)
\* The first turn of minimise, started on s, in which a reduce call returns a
\* conflict: sys is the System when that turn begins (position `at` popped).
FirstConflict(s) ==
    IF s.to_minimise = {}
    THEN [found |-> FALSE, sys |-> s, at |-> 0]
    ELSE LET idx == Least(s.to_minimise)
             popped == [s EXCEPT !.to_minimise = @ \ {idx}]
         IN  IF ReduceFails(popped, idx)
             THEN [found |-> TRUE, sys |-> popped, at |-> idx]
             ELSE FirstConflict(turn_ok(popped, idx))

\* C11: minimise returns a conflict exactly when one of its reduce calls
\* does, and stops there: the positions pending when the failing turn began
\* stay pending, no constraint outside that turn's overlaps is touched, each
\* overlapping constraint is as before the turn or as one reduce by the popped
\* constraint leaves it; '1 of [0,1]' with '2 of [0,1]' gives the conflict.
C11_ConflictAborts ==
    [][(Called("minimise") /\ status' # "panic") =>
          LET f == FirstConflict(Sys)
              over == overlaps_at(f.sys, f.at)
          IN  /\ (status' = "conflict") <=> f.found
              /\ f.found =>
                    /\ to_minimise' = f.sys.to_minimise
                    /\ Len(constraints') = Len(constraints)
                    /\ \A k \in Positions(constraints) :
                          (k \notin over \cup {f.at})
                              => At(constraints', k) = At(f.sys.constraints, k)
                    /\ \A o \in over :
                          At(constraints', o) \in
                              { At(f.sys.constraints, o),
                                reduce(At(f.sys.constraints, o),
                                       At(f.sys.constraints, f.at)).c }
              /\ (/\ constraints = << MineConstraintNew({0, 1}, 1),
                                      MineConstraintNew({0, 1}, 2) >>
                  /\ to_minimise = {0, 1})
                    => status' = "conflict"]_vars

\* minimise has returned the conflict of '1 of [0,1]' with '2 of [0,1]'
\* while another position was still pending.
C11_Witness ==
    /\ status = "conflict"
    /\ ret.op = "minimise"
    /\ Len(constraints) = 3
    /\ At(constraints, 1) = MineConstraintNew({0, 1}, 2)
    /\ placeholder_at = {0}
    /\ 2 \in to_minimise

\* C12: whenever minimise returns, with success or with a conflict, no
\* position holds the placeholder and every resident constraint is registered
\* in references for each of its variables.
C12_WellFormedOnReturn ==
    (ret.op = "minimise" /\ status \in {"open", "conflict"}) =>
        /\ placeholder_at = {}
        /\ \A i \in Positions(constraints) :
              \A v \in variables(At(constraints, i)) :
                  v \in DOMAIN references /\ i \in references[v]

\* The step is a call of solve().
SolveCalled == status = "open" /\ ret'.op = "solve"

\* C13: when the initial pop_solution of solve() meets a conflict the
\* iterator starts with an empty stack and its first next() returns None;
\* and a System whose resident constraints admit no common assignment yields
\* no solution at all.
C13_UnsatisfiableYieldsNothing ==
    [][/\ (SolveCalled /\ pop_solution(Sys).res = "conflict")
              => (status' = "iterating" /\ stack' = << >>)
       /\ (status = "iterating" /\ ret.op = "solve" /\ stack = << >>)
              => (ret'.op = "next" /\ ret'.val = None /\ yielded' = {})
       /\ (Solutions = {}) => (yielded' = {})]_vars

\* C14: solve() on a System without constraints yields exactly one solution,
\* the empty assignment, and then ends: the call leaves one frame holding the
\* empty assignment, the first next() returns it and empties the stack, and
\* the following next() returns None.
C14_EmptySystemOneSolution ==
    (constraints = << >> /\ ret.op \in {"solve", "next", "next_loop"}) =>
        /\ status # "panic"
        /\ ret.op # "next_loop"
        /\ yielded \subseteq {AssignDefault}
        /\ (ret.op = "solve") =>
              /\ Len(stack) = 1
              /\ is_empty(stack[1].system)
              /\ stack[1].solution = AssignDefault
        /\ (ret.op = "next") =>
              /\ stack = << >>
              /\ yielded = {AssignDefault}
              /\ (ret.val = None) <=> (status = "done")

\* The mine constraint '1 of [0,1]'.
OneOfTwo == MineConstraintNew({0, 1}, 1)

\* The System is System::from(['1 of [0,1]']), before or after minimise.
SingleOneOfTwo ==
    /\ constraints = << OneOfTwo >>
    /\ idx_map = (default_hash(OneOfTwo) :> 0)
    /\ references = (0 :> {0} @@ 1 :> {0})
    /\ to_minimise \subseteq {0}

\* {0 mine, 1 safe} and {0 safe, 1 mine}
TwoSolutions == { MineAssignmentNew({1}, {0}), MineAssignmentNew({0}, {1}) }

\* pop_solution after minimise on that System returns the empty assignment
\* and leaves the constraint resident.
PopKeepsOneOfTwo ==
    (SingleOneOfTwo /\ ret.op = "minimise" /\ Called("pop_solution")) =>
        /\ status' = "open"
        /\ ret'.val = Some(AssignDefault)
        /\ constraints' = << OneOfTwo >>

\* C15 (as stated): for the System holding the single constraint
\* '1 of [0,1]', pop_solution after minimise returns the empty assignment and
\* leaves the constraint resident, and the stream of solve() has exactly two
\* elements, {0 mine, 1 safe} and {0 safe, 1 mine}: next() never returns an
\* assignment it has returned before, and when it returns None those two
\* have been returned.
C15_StreamOfTwo ==
    [][/\ PopKeepsOneOfTwo
       /\ (SingleOneOfTwo /\ ret'.op = "next" /\ ret'.val # None)
              => (ret'.val[1] \in TwoSolutions /\ ret'.val[1] \notin yielded)
       /\ (SingleOneOfTwo /\ status' = "done") => (yielded' = TwoSolutions)]_vars

\* The frames of the stack whose System is empty and whose solution is a.
FramesYielding(a) ==
    { k \in DOMAIN stack : is_empty(stack[k].system) /\ stack[k].solution = a }

\* C15 (amended): for System::from(['1 of [0,1]']), pop_solution after
\* minimise returns the empty assignment and leaves the constraint resident,
\* and solve() yields {0 mine, 1 safe} and {0 safe, 1 mine} and no other
\* assignment, each of them twice: the one expansion of next() pushes four
\* frames with an empty System, two for each of the two assignments, every
\* later pass pops and returns one of them, and None follows the fourth.
C15_TwoSolutionsEachTwice ==
    [][/\ PopKeepsOneOfTwo
       /\ (SingleOneOfTwo /\ ret'.op = "next_loop")
              => /\ ret.op = "solve"
                 /\ Len(stack') = 4
                 /\ \A a \in TwoSolutions : Cardinality(FramesYielding(a)') = 2
       /\ (SingleOneOfTwo /\ ret'.op = "next" /\ ret'.val # None)
              => /\ ret'.val[1] \in TwoSolutions
                 /\ ret'.val[1] = stack[Len(stack)].solution
                 /\ stack' = Pop(stack)
       /\ (SingleOneOfTwo /\ status' = "done")
              => (stack = << >> /\ yielded' = TwoSolutions)]_vars

\* solve() on System::from(['1 of [0,1]']) has returned None after yielding
\* both assignments.
C15_Witness ==
    /\ SingleOneOfTwo
    /\ status = "done"
    /\ yielded = TwoSolutions

\* No resident constraint of s has zero variables.
NoEmptyConstraint(s) ==
    \A i \in Positions(s.constraints) : variables(At(s.constraints, i)) # {}

\* C16: after pop_solution returns successfully no resident constraint has
\* zero variables, in the caller's System and in every System the search
\* keeps after its pop_solution.
C16_NoEmptyAfterPop ==
    /\ (ret.op = "pop_solution" /\ status = "open") => NoEmptyConstraint(Sys)
    /\ \A k \in DOMAIN stack : NoEmptyConstraint(stack[k].system)

\* pop_solution has returned, swept at least one constraint and left one.
C16_Witness ==
    /\ ret.op = "pop_solution"
    /\ status = "open"
    /\ Len(constraints) >= 1
    /\ Cardinality(DOMAIN idx_map) > Len(constraints)

RECURSIVE UnionOfPops(_, _)
\* The union, in the order of the Vec, of what pop_solution of every
\* constraint of cs yields, starting from acc.
UnionOfPops(cs, acc) ==
    IF cs = << >> THEN acc
    ELSE LET p == cons_pop_solution(Head(cs))
         IN  UnionOfPops(Tail(cs),
                         IF p.sol = None THEN acc ELSE assign_union(acc, p.sol[1]))

\* The constraints of cs as their own pop_solution leaves them.
Left(cs) == [k \in DOMAIN cs |-> cons_pop_solution(cs[k]).c]

Count(seq, x) == Cardinality({ k \in DOMAIN seq : seq[k] = x })

\* The System is System::from_iter(cs), possibly minimised since: idx_map is
\* written by no other operation.
BuiltFrom(cs) ==
    /\ status = "open"
    /\ idx_map = extend_idx_map(EmptyMap, cs, 0)
    /\ \/ ops = 1 /\ ret.op = "extend"
       \/ ops = 2 /\ ret.op = "minimise"

\* solver::partial_minimise of mines/test.rs
PartialMines == << MineConstraintNew({0, 1, 2}, 2), MineConstraintNew({1, 2}, 1) >>

\* solver::partial_minimise of generic/test.rs
PartialTables ==
    << DiscreteConstraintOf(<< "a", "b", "c", "d" >>,
                            { << TRUE, FALSE, TRUE, FALSE >>,
                              << TRUE, FALSE, TRUE, TRUE >>,
                              << FALSE, TRUE, TRUE, TRUE >> }),
       DiscreteConstraintOf(<< "a", "b", "c" >>,
                            { << TRUE, TRUE, FALSE >>, << TRUE, FALSE, TRUE >> }) >>

PartialTablesSolution == [v \in {"a", "b", "c"} |-> v # "b"]

\* C17: whenever pop_solution returns, it has failed with minimise's conflict
\* exactly when minimise of the pending positions fails; otherwise it returns
\* the union of what every constraint's pop_solution yields on the minimised
\* System, leaves to_minimise empty and keeps exactly the constraints that
\* still have variables, each as its pop_solution left it. On the mines
\* '2 of [0,1,2]', '1 of [1,2]' it returns {0 mine} and leaves '1 of [1,2]';
\* on the tables of the partial-minimise test it returns {a T, b F, c T} and
\* leaves the table over d with its two tuples.
C17_PopSolutionContract ==
    [][(Called("pop_solution") /\ status' # "panic") =>
         LET m == IF to_minimise # {} THEN minimise(Sys)
                  ELSE [res |-> "ok", sys |-> Sys, at |-> 0]
             left == Left(m.sys.constraints)
         IN  /\ (status' = "conflict") <=> (m.res = "conflict")
             /\ (m.res = "ok") =>
                  /\ ret'.val = Some(UnionOfPops(m.sys.constraints, SolutionDefault))
                  /\ to_minimise' = {}
                  /\ \A i \in DOMAIN constraints' :
                        /\ variables(constraints'[i]) # {}
                        /\ Count(constraints', constraints'[i]) = Count(left, constraints'[i])
                  /\ \A k \in DOMAIN left :
                        variables(left[k]) # {} =>
                            Count(constraints', left[k]) = Count(left, left[k])
             /\ (family = "mines" /\ BuiltFrom(PartialMines)) =>
                  /\ status' = "open"
                  /\ ret'.val = Some(all_mine({0}))
                  /\ constraints' = << MineConstraintNew({1, 2}, 1) >>
             /\ (family = "generic" /\ BuiltFrom(PartialTables)) =>
                  /\ status' = "open"
                  /\ ret'.val = Some(PartialTablesSolution)
                  /\ constraints' =
                        << DiscreteConstraintOf(<< "d" >>, { << FALSE >>, << TRUE >> }) >>
      ]_vars

C17_Witness ==
    /\ family = "generic"
    /\ ret.op = "pop_solution"
    /\ ops = 3
    /\ idx_map = extend_idx_map(EmptyMap, PartialTables, 0)
    /\ ret.val = Some(PartialTablesSolution)
    /\ Len(constraints) = 1

\* Some assignment satisfies both mine constraints: a set of mines among the
\* tiles of the two that gives each its count.
MinesBothHold(a, b) ==
    \E mines \in SUBSET (a.tiles \cup b.tiles) :
        /\ Cardinality(mines \cap a.tiles) = a.count
        /\ Cardinality(mines \cap b.tiles) = b.count

\* Some assignment satisfies both tables: a tuple of each, with the same
\* value wherever the two name the same variable.
TablesBothHold(a, b) ==
    \E t0 \in a.assignments, t1 \in b.assignments :
        \A i \in Positions(a.variables), j \in Positions(b.variables) :
            At(a.variables, i) = At(b.variables, j) => At(t0, i) = At(t1, j)

BothHold(a, b) ==
    IF family = "mines" THEN MinesBothHold(a, b) ELSE TablesBothHold(a, b)

\* C18: reduce returns a conflict exactly when no assignment satisfies both
\* self and other, for mine constraints and for tables.
C18_ConflictIffUnsatisfiable ==
    ret.op = "reduce" =>
        ((ret.val.res = "err") <=> ~ BothHold(ret.arg[1], ret.arg[2]))

\* self strictly shrank: fewer tiles or a smaller mine count for a mine
\* constraint, fewer tuples for a table.
StrictlyShrank(before, after) ==
    IF family = "mines"
    THEN /\ after.tiles \subseteq before.tiles
         /\ after.count <= before.count
         /\ after # before
    ELSE Cardinality(after.assignments) < Cardinality(before.assignments)

\* C19: a reduce that succeeds returns true exactly when self strictly
\* shrank and false exactly when self is unchanged; a mine constraint reduced
\* against an all-safe or all-mine other sharing no tile with it returns
\* false.
C19_TrueIffShrank ==
    (ret.op = "reduce" /\ ret.val.res # "err") =>
        LET before == ret.arg[1]
            other == ret.arg[2]
            after == ret.val.c
        IN  /\ (ret.val.res = "true") <=> StrictlyShrank(before, after)
            /\ (ret.val.res = "false") <=> (after = before)
            /\ (/\ family = "mines"
                /\ other.count \in {0, Cardinality(other.tiles)}
                /\ before.tiles \cap other.tiles = {}) => ret.val.res = "false"

\* C20: once a call self.reduce(other) has succeeded, every further call with
\* the same other returns false and leaves self unchanged.
C20_RepeatReturnsFalse ==
    [][(ret.op = "reduce" /\ ret.val.res # "err" /\ ret'.op = "reduce") =>
         /\ ret'.arg = << ret.val.c, ret.arg[2] >>
         /\ ret'.val = [res |-> "false", c |-> ret.val.c]]_vars

\* The variables an assignment of the current type may bind.
AssignVariables == IF family = "mines" THEN Tiles ELSE AssignVars

\* Assignment a binds variable v to val; for a MineAssignment val is whether
\* the tile is a mine, as its iterator reports it.
Binds(a, v, val) ==
    IF family = "mines"
    THEN (val /\ v \in a.mine_tiles) \/ (~ val /\ v \in a.safe_tiles)
    ELSE v \in DOMAIN a /\ a[v] = val

\* v is bound to val by self or by other.
EitherBinds(self, other, v, val) == Binds(self, v, val) \/ Binds(other, v, val)

C22_IntersectionBinds ==
    ret.op = "intersection" =>
        \A v \in AssignVariables, val \in BOOLEAN :
            Binds(ret.val.out, v, val) <=>
                (Binds(ret.val.self, v, val) /\ Binds(ret.val.other, v, val))

C22_Witness ==
    /\ family = "generic"
    /\ ret.op = "intersection"
    /\ ret.val.self = [v \in {"a", "b"} |-> TRUE]
    /\ ret.val.other = [v \in {"a", "b"} |-> v = "a"]
    /\ ret.val.out = [v \in {"a"} |-> TRUE]

\* A second union whose self is the result of the union before it:
\* (a.union(b)).union(c).
UnionOfUnion ==
    /\ ret.op = "union"
    /\ ret'.op = "union"
    /\ ret'.val.self = ret.val.out

\* Some variable is bound to different values by the assignments of S.
Disagree(S) ==
    \E v \in AssignVariables, x \in S, y \in S : Binds(x, v, TRUE) /\ Binds(y, v, FALSE)

\* C23: union(union(a, b), c) equals union(a, union(b, c)) for all a, b, c.
C23_UnionAssociative ==
    [][UnionOfUnion =>
         ret'.val.out = assign_union(ret.val.self,
                                     assign_union(ret.val.other, ret'.val.other))]_vars

\* C23 (amended): union(union(a, b), c) equals union(a, union(b, c)) whenever
\* a, b and c bind no variable to different values.
\* Both groupings then give the assignment that binds what any of the three
\* binds.
C23_UnionAssociativeWhenAgreeing ==
    [][(UnionOfUnion /\ ~ Disagree({ret.val.self, ret.val.other, ret'.val.other})) =>
         /\ ret'.val.out = assign_union(ret.val.self,
                                        assign_union(ret.val.other, ret'.val.other))
         /\ \A v \in AssignVariables, val \in BOOLEAN :
               Binds(ret'.val.out, v, val) <=>
                   \/ EitherBinds(ret.val.self, ret.val.other, v, val)
                   \/ Binds(ret'.val.other, v, val)]_vars

C23_Witness ==
    /\ family = "generic"
    /\ ret.op = "union"
    /\ ops = 2
    /\ ret.arg = << [v \in {"a"} |-> TRUE], [v \in {"b"} |-> FALSE], [v \in {"a", "b"} |-> v = "a"] >>
    /\ ret.val.self = [v \in {"a", "b"} |-> v = "a"]
    /\ ret.val.other = ret.arg[3]
    /\ ret.val.out = ret.arg[3]

\* C24: a call on (self, other) returns what the same call on (other, self)
\* returns, for union and for intersection.
C24_Commutative ==
    /\ ret.op = "union" =>
          ret.val.out = assign_union(ret.val.other, ret.val.self)
    /\ ret.op = "intersection" =>
          ret.val.out = intersection(ret.val.other, ret.val.self)

C24_Witness ==
    /\ family = "generic"
    /\ ret.op = "union"
    /\ ret.val.self = [v \in {"a"} |-> TRUE]
    /\ ret.val.other = [v \in {"a", "b"} |-> v = "b"]
    /\ ret.val.out = [v \in {"b"} |-> TRUE]

\* C25: a.union(a) and a.intersection(a) return a, for every assignment a
\* the constructors build or a call returns.
C25_Idempotent ==
    (ret.op \in {"union", "intersection"} /\ ret.val.self = ret.val.other) =>
        ret.val.out = ret.val.self

\* The number of constraints of s, other than the one at idx, that share a
\* variable with it.
OverlapCount(s, idx) ==
    Cardinality({ j \in Positions(s.constraints) \ {idx} :
                    variables(At(s.constraints, j)) \cap variables(At(s.constraints, idx)) # {} })

\* No constraint of s is smaller than the one at idx, and none of the same
\* size overlaps more constraints.
SmallestMostOverlapping(s, idx) ==
    \A j \in Positions(s.constraints) :
        \/ size(At(s.constraints, idx)) < size(At(s.constraints, j))
        \/ /\ size(At(s.constraints, idx)) = size(At(s.constraints, j))
           /\ OverlapCount(s, j) <= OverlapCount(s, idx)

\* The frames a pass of next leaves when it branches on the constraint at
\* idx of the frame on top of the stack.
BranchedOn(idx) ==
    LET top == stack[Len(stack)]
        best == At(top.system.constraints, idx)
    IN  \E order \in iteration_orders(best) :
            stack' = push_decompositions(Pop(stack), top.system, top.solution,
                                         decompositions(best, order)).stack

\* C26: a pass of next that expands a frame ranks every constraint of its
\* System by (-size, number of overlapping constraints) and branches on a
\* constraint of smallest size that, among those of smallest size, overlaps
\* the most constraints.
C26_BranchesOnBest ==
    [][(status = "iterating" /\ ret'.op = "next_loop" /\ status' # "panic") =>
         LET sys == stack[Len(stack)].system
         IN  /\ \A i \in Positions(sys.constraints) :
                   rank(sys, i) = << 0 - size(At(sys.constraints, i)), OverlapCount(sys, i) >>
             /\ \E idx \in Positions(sys.constraints) :
                   SmallestMostOverlapping(sys, idx) /\ BranchedOn(idx)]_vars

\* A frame whose first constraint is larger than its second has been expanded
\* on the second: its frames fix tile 0 or tile 1, none fixes tile 2 or 3 alone.
C26_Witness ==
    /\ ret.op = "next_loop"
    /\ status = "iterating"
    /\ constraints = << MineConstraintNew({1, 2, 3}, 2), MineConstraintNew({0, 1}, 1) >>
    /\ Len(stack) = 4
    /\ { stack[k].solution : k \in 1 .. 4 }
           = { MineAssignmentNew({1}, {0, 2, 3}), MineAssignmentNew({0}, {1}) }

\* C27: every constraint in hand that mentions no variable has size 1: the
\* two built by the constructors, and self as successful reduce and
\* pop_solution calls have left it.
C27_NoVariablesSizeOne ==
    ~ Conflicted =>
        \A c \in {CurrentSelf, ret.arg[1], ret.arg[2]} :
            variables(c) = {} => size(c) = 1

\* The assignments of exactly the variables of c that satisfy c.
Models(c) ==
    IF family = "mines"
    THEN { MineAssignmentNew(c.tiles \ m, m) :
             m \in { m \in SUBSET c.tiles : Cardinality(m) = c.count } }
    ELSE { [x \in disc_variables(c) |-> value_of(c, t, x)] : t \in c.assignments }

\* a binds every variable of V that b binds, to the same value.
Extends(a, b, V) ==
    \A v \in V, val \in BOOLEAN : Binds(b, v, val) => Binds(a, v, val)

\* C28: every element decompositions() yields for a constraint C mentions
\* only variables of C, has size 1, and the assignment it allows is part of
\* an assignment that satisfies C.
C28_DecompositionsContract ==
    ret.op = "decompositions" =>
        \A k \in DOMAIN ret.val.out :
            /\ variables(ret.val.out[k]) \subseteq variables(ret.arg[1])
            /\ size(ret.val.out[k]) = 1
            /\ \E a \in Models(ret.arg[1]), b \in Models(ret.val.out[k]) :
                  Extends(a, b, variables(ret.val.out[k]))

\* The four decompositions of '1 of {0, 1}' have been yielded.
C28_Witness ==
    /\ family = "mines"
    /\ ret.op = "decompositions"
    /\ ret.arg[1] = MineConstraintNew({0, 1}, 1)
    /\ ret.val.out = << MineConstraintNew({0}, 1), MineConstraintNew({0}, 0),
                        MineConstraintNew({1}, 1), MineConstraintNew({1}, 0) >>

\* C29: MineConstraint::pop_solution on (tiles, k), n the number of tiles:
\* with k = 0 it returns every tile as safe and empties the constraint; with
\* k = n > 0 it returns every tile as a mine, empties the constraint and sets
\* k to 0; otherwise it returns None and leaves the constraint as it was.
\* After a Some the constraint mentions no variable and has size 1.
C29_MinePopSolution ==
    (family = "mines" /\ ret.op = "pop_solution") =>
        /\ ret.arg[1].count = 0 =>
              /\ ret.val.sol = << [safe_tiles |-> ret.arg[1].tiles, mine_tiles |-> {}] >>
              /\ ret.val.c.tiles = {}
        /\ (ret.arg[1].count = Cardinality(ret.arg[1].tiles) /\ ret.arg[1].tiles # {}) =>
              /\ ret.val.sol = << [safe_tiles |-> {}, mine_tiles |-> ret.arg[1].tiles] >>
              /\ ret.val.c.tiles = {}
              /\ ret.val.c.count = 0
        /\ (ret.arg[1].count # 0 /\ ret.arg[1].count # Cardinality(ret.arg[1].tiles)) =>
              /\ ret.val.sol = << >>
              /\ ret.val.c = ret.arg[1]
        /\ ret.val.sol # << >> =>
              /\ variables(ret.val.c) = {}
              /\ size(ret.val.c) = 1

\* '2 of {0, 1}' has been popped: both tiles are mines, '0 of {}' is left.
C29_Witness ==
    /\ family = "mines"
    /\ ret.op = "pop_solution"
    /\ ret.arg[1] = MineConstraintNew({0, 1}, 2)
    /\ ret.val.sol = << [safe_tiles |-> {}, mine_tiles |-> {0, 1}] >>
    /\ ret.val.c = MineConstraintNew({}, 0)

\* The variables of table c whose value is the same in all its tuples.
CommonVariables(c) ==
    { x \in disc_variables(c) :
        \A v, w \in c.assignments : value_of(c, v, x) = value_of(c, w, x) }

\* Assignment m without the variables of V.
Without(m, V) == [x \in (DOMAIN m) \ V |-> m[x]]

\* pop_solution has returned Some(A) and left self as the claim describes: A
\* binds exactly the variables with one value across all tuples, to that
\* value; exactly their columns are gone from self; the tuples are as many
\* as before.
PoppedCommon(self, val) ==
    /\ val.sol # None
    /\ DOMAIN val.sol[1] = CommonVariables(self)
    /\ \A m \in Models(self) : \A x \in CommonVariables(self) : val.sol[1][x] = m[x]
    /\ disc_variables(val.c) = disc_variables(self) \ CommonVariables(self)
    /\ Len(val.c.variables) = Len(self.variables) - Cardinality(CommonVariables(self))
    /\ Models(val.c) = { Without(m, CommonVariables(self)) : m \in Models(self) }
    /\ Cardinality(val.c.assignments) = Cardinality(self.assignments)

\* C30 (as stated): DiscreteConstraint::pop_solution returns None when no
\* variable has the same value in all tuples, and otherwise Some(A) with A
\* binding exactly the variables with one value across all tuples, exactly
\* their columns removed from self and the number of tuples unchanged.
C30_PopsCommonColumns ==
    (family = "generic" /\ ret.op = "pop_solution") =>
        IF CommonVariables(ret.arg[1]) = {}
        THEN ret.val.sol = None
        ELSE PoppedCommon(ret.arg[1], ret.val)

\* C30 (amended): DiscreteConstraint::pop_solution returns None when the
\* table has no tuples or no variables, leaving it as it was; otherwise it
\* returns Some(A) with A binding exactly the variables with one value across
\* all tuples (none, when there is no such variable), exactly their columns
\* removed from self and the number of tuples unchanged.
C30_PopsCommonColumnsOrNothing ==
    (family = "generic" /\ ret.op = "pop_solution") =>
        IF ret.arg[1].assignments = {} \/ Len(ret.arg[1].variables) = 0
        THEN ret.val.sol = None /\ ret.val.c = ret.arg[1]
        ELSE PoppedCommon(ret.arg[1], ret.val)

\* The table of the test constraints::pop_solution has been popped: c is
\* bound to true, the columns a and b and both tuples are left.
C30_Witness ==
    /\ family = "generic"
    /\ ret.op = "pop_solution"
    /\ ret.arg[1] = DiscreteConstraintOf(<< "a", "b", "c" >>,
                        { << TRUE, FALSE, TRUE >>, << FALSE, TRUE, TRUE >> })
    /\ ret.val.sol = << [x \in {"c"} |-> TRUE] >>
    /\ ret.val.c = DiscreteConstraintOf(<< "a", "b" >>,
                        { << TRUE, FALSE >>, << FALSE, TRUE >> })

\* The tuples of table self that agree with some tuple of table other on
\* every variable the two tables share.
AgreeingTuples(self, other) ==
    { t \in self.assignments :
        \E u \in other.assignments :
            \A x \in disc_variables(self) \cap disc_variables(other) :
                value_of(self, t, x) = value_of(other, u, x) }

\* C31: DiscreteConstraint::reduce retains exactly the tuples of self that
\* agree with some tuple of other on every shared variable, wherever the
\* variable stands in the two lists; it reports a conflict exactly when no
\* tuple is retained, else true exactly when the tuples became fewer; the
\* variable list of self is unchanged.
C31_RetainsAgreeingTuples ==
    (family = "generic" /\ ret.op = "reduce") =>
        /\ ret.val.c.assignments = AgreeingTuples(ret.arg[1], ret.arg[2])
        /\ ret.val.res = "err" <=> AgreeingTuples(ret.arg[1], ret.arg[2]) = {}
        /\ ret.val.res = "true" <=>
              /\ AgreeingTuples(ret.arg[1], ret.arg[2]) # {}
              /\ Cardinality(AgreeingTuples(ret.arg[1], ret.arg[2]))
                    < Cardinality(ret.arg[1].assignments)
        /\ ret.val.c.variables = ret.arg[1].variables

\* The tables of the test constraints::reduce, the second with its columns
\* in another order: one tuple of the first is retained.
C31_Witness ==
    /\ family = "generic"
    /\ ret.op = "reduce"
    /\ ret.arg[1] = DiscreteConstraintOf(<< "a", "b", "c" >>,
                        { << TRUE, FALSE, TRUE >>, << FALSE, TRUE, TRUE >> })
    /\ ret.arg[2] = DiscreteConstraintOf(<< "c", "a", "b" >>,
                        { << FALSE, TRUE, TRUE >>, << TRUE, TRUE, FALSE >> })
    /\ ret.val.res = "true"
    /\ ret.val.c.assignments = { << TRUE, FALSE, TRUE >> }

\* The variable list of a row of (variable, value) pairs.
RowVariables(row) == [k \in DOMAIN row |-> row[k][1]]

\* The value a row gives to variable x.
RowValue(row, x) == row[CHOOSE k \in DOMAIN row : row[k][1] = x][2]

\* C32: from_iter panics whenever the variable list of some row differs from
\* that of the first row, in its variables or in their order; when it does
\* not panic, the stored tuples are those of the rows, the k-th value of each
\* being the value its row gave to the k-th variable of the constraint.
C32_FromIterOrderSensitive ==
    (ret.op = "from_iter" /\ ret.arg # << >>) =>
        /\ (\E r \in DOMAIN ret.arg : RowVariables(ret.arg[r]) # RowVariables(ret.arg[1]))
              => ret.val.panic
        /\ ~ ret.val.panic =>
              /\ ret.val.c.variables = RowVariables(ret.arg[1])
              /\ ret.val.c.assignments =
                    { [k \in DOMAIN ret.val.c.variables |->
                          RowValue(ret.arg[r], ret.val.c.variables[k])] :
                      r \in DOMAIN ret.arg }

\* Constraint c allows f, a choice of a value for every variable of c (and
\* possibly more): for mines TRUE marks a mine.
Allows(c, f) ==
    IF family = "mines"
    THEN Cardinality({ x \in c.tiles : f[x] }) = c.count
    ELSE \E t \in c.assignments :
            \A x \in disc_variables(c) : value_of(c, t, x) = f[x]

\* The choices of values for the variables V that a and b both allow.
JointModels(V, a, b) == { f \in [V -> BOOLEAN] : Allows(a, f) /\ Allows(b, f) }

\* C33: when self.reduce(other) returns Ok, the assignments of the variables
\* of both that satisfy the reduced self together with other are those that
\* satisfied the original self together with other.
C33_ReducePreservesModels ==
    (ret.op = "reduce" /\ ret.val.res # "err") =>
        JointModels(variables(ret.arg[1]) \cup variables(ret.arg[2]),
                    ret.val.c, ret.arg[2])
          = JointModels(variables(ret.arg[1]) \cup variables(ret.arg[2]),
                        ret.arg[1], ret.arg[2])

\* '2 of {0, 1, 2}' has been reduced by its subset '1 of {0, 1}' to '1 of {2}'.
C33_Witness ==
    /\ family = "mines"
    /\ ret.op = "reduce"
    /\ ret.arg = << MineConstraintNew({0, 1, 2}, 2), MineConstraintNew({0, 1}, 1) >>
    /\ ret.val.res = "true"
    /\ ret.val.c = MineConstraintNew({2}, 1)

\* The measure a reduce that returns Ok(true) is to decrease: the number of
\* tuples of a table, the tiles and mines of a mine constraint.
Measure(c) ==
    IF family = "mines" THEN Cardinality(c.tiles) + c.count
    ELSE Cardinality(c.assignments)

\* Every position a turn of minimise enqueues again holds a constraint
\* whose measure the turn has decreased.
EnqueuedShrank ==
    (ret'.op = "turn" /\ status' = "minimising") =>
        \A o \in ret'.val : Measure(At(constraints', o)) < Measure(At(constraints, o))

\* C34: minimise terminates: every position a turn enqueues again has been
\* strictly reduced, and a call of minimise comes to its end, with nothing
\* pending or with a conflict.
C34_MinimiseTerminates ==
    /\ [][EnqueuedShrank]_vars
    /\ (status = "minimising") ~> (status # "minimising" /\ (to_minimise = {} \/ status # "open"))

\* A turn of minimise on two overlapping tables has reduced the second by
\* the first from two tuples to one and enqueued it again.
C34_Witness ==
    /\ family = "generic"
    /\ status = "minimising"
    /\ ret = [op |-> "turn", arg |-> 0, val |-> {1}]
    /\ constraints = << DiscreteConstraintOf(<< "b", "a" >>, { << TRUE, FALSE >> }),
                        DiscreteConstraintOf(<< "a", "b" >>, { << FALSE, TRUE >> }) >>
    /\ to_minimise = {1}

\* The variables the constraints of System s mention.
SystemVars(s) == UNION { variables(At(s.constraints, i)) : i \in Positions(s.constraints) }

\* C35: the iterator is finite because every frame a pass of next pushes for
\* a decomposition holds a System that mentions strictly fewer variables
\* than the frame it was expanded from (a frame pushed with the System of
\* its parent is expanded into itself again, pass after pass).
C35_FramesLoseVariables ==
    [][(status = "iterating" /\ ret'.op = "next_loop" /\ status' # "panic") =>
         \A k \in Len(stack) .. Len(stack') :
            /\ SystemVars(stack'[k].system) \subseteq SystemVars(stack[Len(stack)].system)
            /\ SystemVars(stack'[k].system) # SystemVars(stack[Len(stack)].system)]_vars

\* The frame next pushes for decomposition d of a frame (system, solution).
DecompositionFrame(system, solution, d) ==
    [system |-> pop_solution(insert(system, d).sys).sys,
     solution |-> assign_union(solution, pop_solution(insert(system, d).sys).sol)]

\* The decompositions ds whose frame is pushed (those that meet no
\* conflict), in their order in ds.
KeptDecompositions(system, ds) ==
    Subsequence(ds, { k \in Positions(ds) :
                        pop_solution(insert(system, At(ds, k)).sys).res = "ok" })

\* The frames of the decompositions ds of a frame, first decomposition first.
FramesInOrder(system, solution, ds) ==
    [k \in DOMAIN KeptDecompositions(system, ds) |->
        DecompositionFrame(system, solution, KeptDecompositions(system, ds)[k])]

Reversed(seq) == [k \in DOMAIN seq |-> seq[Len(seq) + 1 - k]]

\* A pass of next that yields takes the frame on top of the stack and leaves
\* the frames below as they are: what is found under a frame is yielded
\* before anything found under a frame below it.
YieldsFromTop ==
    (status = "iterating" /\ ret'.op = "next" /\ ret'.val # None) =>
        /\ ret'.val = Some(stack[Len(stack)].solution)
        /\ stack' = Pop(stack)

\* C36 (as stated): the search is depth-first and takes the decompositions
\* of the chosen constraint in the order decompositions() yields them: an
\* expanding pass leaves the frame of the first decomposition on top, the
\* frames of the later ones below it in their order, so that every solution
\* under an earlier decomposition is yielded before any under a later one.
C36_EarlierDecompositionFirst ==
    [][/\ YieldsFromTop
       /\ (status = "iterating" /\ ret'.op = "next_loop" /\ status' # "panic") =>
             \E order \in iteration_orders(At(stack[Len(stack)].system.constraints,
                                              best_constraint(stack[Len(stack)].system))) :
                stack' = Pop(stack) \o Reversed(FramesInOrder(
                             stack[Len(stack)].system, stack[Len(stack)].solution,
                             decompositions(At(stack[Len(stack)].system.constraints,
                                               best_constraint(stack[Len(stack)].system)),
                                            order)))]_vars

\* C36 (amended): the search is depth-first and takes the decompositions of
\* the chosen constraint in the reverse of the order decompositions() yields
\* them: an expanding pass pushes their frames in that order, the frame of
\* the last decomposition ends on top, so that every solution under a later
\* decomposition is yielded before any under an earlier one.
C36_LaterDecompositionFirst ==
    [][/\ YieldsFromTop
       /\ (status = "iterating" /\ ret'.op = "next_loop" /\ status' # "panic") =>
             \E order \in iteration_orders(At(stack[Len(stack)].system.constraints,
                                              best_constraint(stack[Len(stack)].system))) :
                stack' = Pop(stack) \o FramesInOrder(
                             stack[Len(stack)].system, stack[Len(stack)].solution,
                             decompositions(At(stack[Len(stack)].system.constraints,
                                               best_constraint(stack[Len(stack)].system)),
                                            order))]_vars

\* Searching '1 of {1, 2}' with tile 1 iterated first: the solution under the
\* last decomposition (tile 2 safe) has been yielded while the frames of the
\* three earlier decompositions wait below.
C36_Witness ==
    /\ family = "mines" /\ status = "iterating"
    /\ constraints = <<[tiles |-> {1, 2}, count |-> 1]>>
    /\ ret = [op |-> "next", arg |-> None,
              val |-> Some([safe_tiles |-> {2}, mine_tiles |-> {1}])]
    /\ yielded = {[safe_tiles |-> {2}, mine_tiles |-> {1}]}
    /\ Len(stack) = 3
    /\ stack[1].solution = [safe_tiles |-> {2}, mine_tiles |-> {1}]
    /\ stack[2].solution = [safe_tiles |-> {1}, mine_tiles |-> {2}]
    /\ stack[3].solution = [safe_tiles |-> {1}, mine_tiles |-> {2}]

\* No decided mine constraint (count 0, or count = number of tiles) shares a
\* tile with a constraint at another position.
DecidedApart(cs) ==
    family = "mines" =>
        \A i, j \in Positions(cs) :
            (/\ i # j
             /\ At(cs, i).count \in {0, Cardinality(At(cs, i).tiles)})
                => At(cs, i).tiles \cap At(cs, j).tiles = {}

\* C37: when every position is pending as minimise is called and minimise
\* returns success, reduce of any resident constraint against any other
\* resident constraint sharing a variable returns Ok(false), and no decided
\* mine constraint shares a tile with another resident constraint.
C37_AllPendingFixedPoint ==
    [][(/\ Called("minimise") /\ status' = "open"
        /\ to_minimise = Positions(constraints))
          => (FixedPoint(constraints') /\ DecidedApart(constraints'))]_vars

\* Three mine constraints were handed to a new System in two calls and
\* minimise was the third call, every position pending: every constraint came
\* out decided, two of them reduced by a constraint that had itself been
\* reduced in an earlier turn.
C37_Witness ==
    /\ family = "mines" /\ status = "open" /\ ops = 3
    /\ ret = [op |-> "minimise", arg |-> None, val |-> None]
    /\ constraints = << [tiles |-> {0}, count |-> 1],
                        [tiles |-> {1}, count |-> 0],
                        [tiles |-> {2}, count |-> 1] >>
    /\ to_minimise = {}

\* The variables an assignment binds.
BoundVariables(a) ==
    IF family = "mines" THEN a.safe_tiles \cup a.mine_tiles ELSE DOMAIN a

\* C38: after System::pop_solution returns Ok(A), no resident constraint
\* mentions a variable bound in A, whatever state the System was in when
\* pop_solution was called.
C38_PoppedVariablesGone ==
    (status = "open" /\ ret.op = "pop_solution")
        => BoundVariables(ret.val[1]) \cap ResidentVars = {}

\* The System that System::pop_solution hands to remove_empty: the pending
\* positions minimised, every constraint's own solution popped.
SweepInput ==
    pop_each(IF to_minimise # {} THEN minimise(Sys).sys ELSE Sys,
             0, SolutionDefault).sys

\* The positions of s whose constraint has no variables.
EmptyPositions(s) ==
    { i \in Positions(s.constraints) : variables(At(s.constraints, i)) = {} }

\* after is before without its constraints of no variables: none is left,
\* every constraint with a variable is there as often as it was, unchanged,
\* and each of its variables refers back to the position it now has.
Swept(before, after) ==
    /\ EmptyPositions(after) = {}
    /\ Len(after.constraints) =
          Len(before.constraints) - Cardinality(EmptyPositions(before))
    /\ \A i \in Positions(before.constraints) \ EmptyPositions(before) :
          Count(after.constraints, At(before.constraints, i))
              = Count(before.constraints, At(before.constraints, i))
    /\ \A i \in Positions(after.constraints) :
          \A v \in variables(At(after.constraints, i)) :
              v \in DOMAIN after.references /\ i \in after.references[v]

\* C39: the sweep at the end of a successful pop_solution removes exactly the
\* constraints with no variables: every constraint with a variable that was
\* resident before the sweep is resident afterwards with unchanged content
\* and its back-references under its new position, wherever the empty
\* constraints sit.
C39_SweepsExactlyEmpty ==
    [][(Called("pop_solution") /\ status' = "open") => Swept(SweepInput, Sys')]_vars

\* pop_solution on System::from(['2 of {0, 1, 2}', '1 of {1, 2}']) (idx_map
\* still holds the positions of construction): it extracted {0 mine}, the
\* first constraint was left without variables and swept, and '1 of {1, 2}'
\* has moved from position 1 to position 0 with both its tiles referring back
\* to it there.
C39_Witness ==
    /\ family = "mines" /\ status = "open" /\ ops = 2
    /\ ret = [op |-> "pop_solution", arg |-> None,
              val |-> Some([safe_tiles |-> {}, mine_tiles |-> {0}])]
    /\ DOMAIN idx_map = { default_hash(MineConstraintNew({0, 1, 2}, 2)),
                          default_hash(MineConstraintNew({1, 2}, 1)) }
    /\ idx_map[default_hash(MineConstraintNew({0, 1, 2}, 2))] = 0
    /\ idx_map[default_hash(MineConstraintNew({1, 2}, 1))] = 1
    /\ constraints = << MineConstraintNew({1, 2}, 1) >>
    /\ references[1] = {0} /\ references[2] = {0}

\* C40: a MineConstraint built with 0 <= k <= n keeps 0 <= count <= |tiles|
\* through every successful reduce and every pop_solution, and a reduce that
\* reports a conflict leaves its tiles and count as they were.
C40_CountWithinTiles ==
    family = "mines" =>
        /\ CurrentSelf.count >= 0
        /\ CurrentSelf.count <= Cardinality(CurrentSelf.tiles)
        /\ Conflicted => ret.val.c = ret.arg[1]

\* '2 of {0, 1, 2}' was reduced by '1 of {0, 1}' and pop_solution has then
\* taken tile 2 as a mine out of the '1 of {2}' that reduce left.
C40_Witness ==
    /\ family = "mines" /\ ops = 2
    /\ ret.op = "pop_solution"
    /\ ret.arg = << MineConstraintNew({2}, 1), MineConstraintNew({0, 1}, 1) >>
    /\ ret.val.c = MineConstraintNew({}, 0)
    /\ ret.val.sol = Some(all_mine({2}))

====
